---- MODULE Spec2Model ----
(***************************************************************************)
(* A model of the two plugin-driven drag engines of svelte-drag (neodrag): *)
(*   - createDraggable: the delegated multi-instance engine               *)
(*     (src/unnamed/part_001, lines 779-1278), engine = "create";          *)
(*   - draggable(node, options): the single-instance engine                *)
(*     (src/unnamed/part_001, lines 122-497), engine = "single";           *)
(* and of the built-in plugins both run (src/unnamed/part_001, 499-778).   *)
(*                                                                         *)
(* A hook chain is a fold over the instance's plugin list; every hook is   *)
(* a function of the instance, the DOM and the pointer event.  Effects     *)
(* (closures queued with ctx.effect) are records kept in insertion order.  *)
(* The DOM holds no CSS scaling: offsetWidth equals the rendered width.    *)
(***************************************************************************)
EXTENDS Integers, Sequences, FiniteSets, TLC

VARIABLES
    engine,        \* "create" or "single": which engine this run exercises
    cfg,           \* what the embedding page does: plugins, nodes, pointers
    instances,     \* createDraggable: WeakMap node -> DraggableInstance;
                   \* draggable(): the closure state of the one instance
    active_node,   \* createDraggable: the globally active node, or NoNode
    dom,           \* styles, classes and pointer capture of the document
    down,          \* the pointers that are pressed (environment)
    hist,          \* history: what effects did, the open press-release cycle
    obs            \* what the last handler did (hooks called, notifications)

vars == <<engine, cfg, instances, active_node, dom, down, hist, obs>>

-----------------------------------------------------------------------------
(* Bounds of the model *)

MaxCoord == 3      \* pointer coordinates range over 0..MaxCoord
MaxOffset == 1     \* reach of the runs with one pointer
MaxQueue == 6      \* a handler is modelled only while the effect queue is
                   \* no longer than this when it starts

-----------------------------------------------------------------------------
(* Values *)

NULL == << >>                       \* JavaScript null / undefined
Some(v) == <<v>>
OrZero(v) == IF v = NULL THEN 0 ELSE v[1]          \* v ?? 0
Truthy(v) == v # NULL /\ v[1] # 0                  \* if (v) for a number

NoNode == "none"
Nodes == {"n1", "n2"}
PointerIds == {0, 1, 2}
NoPointer == 0 - 1                  \* pointer_captured_id = null

Min2(a, b) == IF a < b THEN a ELSE b
Max2(a, b) == IF a > b THEN a ELSE b
Abs(a) == IF a < 0 THEN 0 - a ELSE a

\* Math.ceil(val / snap) for integers, snap > 0
CeilDiv(val, snap) == 0 - ((0 - val) \div snap)

EmptyMap == [k \in {} |-> NULL]
Put(m, k, v) == [x \in (DOMAIN m) \cup {k} |-> IF x = k THEN v ELSE m[x]]
Del(m, k) == [x \in (DOMAIN m) \ {k} |-> m[x]]

-----------------------------------------------------------------------------
(* The document *)

\* Layout boxes of the managed nodes before any translate is applied.
NodeOrigin(n) == IF n = "n1" THEN [x |-> 0, y |-> 0] ELSE [x |-> 1, y |-> 0]
NodeWidth == 1
NodeHeight == 1

\* node.getBoundingClientRect(): the layout box moved by the applied translate
getBoundingClientRect(D, n) ==
    LET t == D.translate[n]
        tx == IF t = NULL THEN 0 ELSE t[1][1]
        ty == IF t = NULL THEN 0 ELSE t[1][2]
    IN  [x |-> NodeOrigin(n).x + tx, y |-> NodeOrigin(n).y + ty,
         width |-> NodeWidth, height |-> NodeHeight]

\* node.offsetWidth: the layout width (no CSS scaling in this document)
offsetWidth(n) == NodeWidth

\* e.composedPath(): the nodes are children of the body
composedPath(target) == IF target = "body" THEN <<"body">> ELSE <<target, "body">>

\* node.contains(target): the managed nodes have no element children
contains(node, target) == node = target

InitDom == [translate |-> [n \in Nodes |-> NULL],
            classes   |-> [n \in Nodes |-> {}],
            userSelect |-> "",
            capture   |-> [p \in PointerIds |-> NoNode]]

hasPointerCapture(D, el, id) == id \in PointerIds /\ D.capture[id] = el
releasePointerCapture(D, el, id) ==
    IF hasPointerCapture(D, el, id) THEN [D EXCEPT !.capture[id] = NoNode] ELSE D
setPointerCapture(D, el, id) == [D EXCEPT !.capture[id] = el]

\* setPointerCapture throws NotFoundError for an id that matches no active
\* pointer (the pointers of cfg.nocapture, those of synthetic events)
setPointerCaptureThrows(id) == id \in cfg.nocapture

-----------------------------------------------------------------------------
(* Plugins.  A plugin object is a record; uid is the object's identity.    *)
(* priority, liveUpdate and cancelable hold the value the engine reads     *)
(* for an absent field: priority ?? 0, a falsy liveUpdate, cancelable      *)
(* !== false.                                                              *)

definePlugin(name, kind, arg) ==
    [name |-> name, kind |-> kind, arg |-> arg, priority |-> 0,
     liveUpdate |-> FALSE, cancelable |-> TRUE, uid |-> name]

ignoreMultitouch(value) == definePlugin("neodrag:ignoreMultitouch", "ignoreMultitouch", value)
classes == definePlugin("neodrag:classes", "classes", NULL)
axis(value) == definePlugin("neodrag:axis", "axis", value)
applyUserSelectHack(value) ==
    definePlugin("neodrag:applyUserSelectHack", "applyUserSelectHack", value)
grid(x, y) == definePlugin("neodrag:grid", "grid", <<x, y>>)
disabled == definePlugin("neodrag:disabled", "disabled", NULL)
transform == definePlugin("neodrag:transform", "transform", NULL)
\* bounds(value): value is a BoundFromFunction returning the fixed rectangle
\* rect = <<<<x1, y1>>, <<x2, y2>>>>; shouldRecompute is the default one.
bounds(rect) == definePlugin("neodrag:bounds", "bounds", rect)

\* A user plugin.  It defines the hooks in arg.hooks; each of them queues an
\* effect when arg.queue, and then, in the hooks of arg.on and when the
\* event has altKey set (setup: always), does arg.act: "false" (return
\* false), "throw", "cancel" (ctx.cancel()), "prevent" (ctx.preventStart())
\* or "ok".  arg.effThrows: the queued effect throws when it runs (with a
\* nonempty arg.on: the effect a hook of arg.on queued for an event with
\* altKey).
probe(name, hooks, queue, act, on, effThrows) ==
    definePlugin(name, "probe",
        [hooks |-> hooks, queue |-> queue, act |-> act, on |-> on,
         effThrows |-> effThrows])

WithPriority(p, n) == [p EXCEPT !.priority = n]
WithUid(p, u) == [p EXCEPT !.uid = u]

\* old_plugin === new_plugin
SameObject(p, q) == p.name = q.name /\ p.uid = q.uid

\* plugin[hook] is defined
Defines(p, hook) ==
    CASE p.kind = "ignoreMultitouch" -> hook \in {"setup", "dragStart", "drag", "dragEnd"}
      [] p.kind = "classes" -> hook \in {"setup", "dragStart", "dragEnd"}
      [] p.kind = "axis" -> hook \in {"shouldDrag", "setup", "drag"}
      [] p.kind = "applyUserSelectHack" -> hook \in {"setup", "dragStart", "dragEnd"}
      [] p.kind = "grid" -> hook = "drag"
      [] p.kind = "disabled" -> hook = "shouldDrag"
      [] p.kind = "transform" -> hook = "drag"
      [] p.kind = "bounds" -> hook \in {"setup", "dragStart", "drag", "dragEnd"}
      [] p.kind = "probe" -> hook \in p.arg.hooks

\* the default_plugins of draggable(node, options)
default_plugins == <<ignoreMultitouch(TRUE), classes, applyUserSelectHack(TRUE), transform>>

-----------------------------------------------------------------------------
(* The world a hook acts on: W.I the instance, W.D the document, W.H the   *)
(* history, W.calls the hooks invoked and W.errs the onError reports of    *)
(* the running handler, W.fired its notifications.                         *)

HasState(W, name) == name \in DOMAIN W.I.states

\* ctx.effect(fn): the closure joins the queue (a Set of fresh closures)
effect(W, eff) ==
    [W EXCEPT !.I.effects = Append(@, eff @@ [tainted |-> FALSE, runs |-> 0])]

\* ctx.propose(coords)
propose(W, x, y) == [W EXCEPT !.I.ctx.proposed = [x |-> x, y |-> y]]

\* ctx.cancel(); didCancel notes the call for the running chain, and the
\* log of calls notes it for the hook that made it
cancel(W) ==
    [W EXCEPT !.I.current_drag_hook_cancelled = TRUE, !.didCancel = TRUE,
              !.calls = [i \in 1..Len(@) |->
                            IF i = Len(@) THEN [@[i] EXCEPT !.cancel = TRUE] ELSE @[i]]]

\* ctx.preventStart() (createDraggable only)
preventStart(W) == [W EXCEPT !.I.dragstart_prevented = TRUE]

Ret(W, out) == [W |-> W, out |-> out]

-----------------------------------------------------------------------------
(* The built-in plugins' hooks.  A hook returns the world it leaves and    *)
(* out: "ok" (returned undefined or true), "false" (returned false) or     *)
(* "throw".  A hook that reads a field of its private state throws a       *)
(* TypeError when the engine passes undefined for the state.               *)

\* snap_to_grid: calc is applied to a truthy pending value only
snap_calc(val, snap) == IF snap = 0 THEN 0 ELSE CeilDiv(val, snap) * snap

snap_to_grid(snap, pending_x, pending_y) ==
    [x |-> IF Truthy(pending_x) THEN Some(snap_calc(pending_x[1], snap[1])) ELSE pending_x,
     y |-> IF Truthy(pending_y) THEN Some(snap_calc(pending_y[1], snap[2])) ELSE pending_y]

clamp(val, min, max) == Min2(max, Max2(min, val))

\* the configured value a queued closure has captured (plugins with a
\* boolean argument)
EffValue(p) == IF p.kind \in {"ignoreMultitouch", "applyUserSelectHack"} THEN p.arg ELSE TRUE

ignoreMultitouch_hook(p, hook, W, e) ==
    CASE hook = "dragStart" ->
            Ret(effect(W, [kind |-> "ignoreMultitouch", name |-> p.name,
                           pointerId |-> e.pointerId, value |-> EffValue(p),
                           throws |-> FALSE]), "ok")
      [] hook = "drag" ->
            IF ~HasState(W, p.name) THEN Ret(W, "throw")
            ELSE IF p.arg /\ Cardinality(W.I.states[p.name].active_pointers) > 1
                 THEN Ret(cancel(W), "ok")
                 ELSE Ret(W, "ok")
      [] hook = "dragEnd" ->
            IF ~HasState(W, p.name) THEN Ret(W, "throw")
            ELSE Ret([W EXCEPT !.I.states[p.name].active_pointers = @ \ {e.pointerId}], "ok")

classes_hook(p, hook, W, e) ==
    CASE hook = "dragStart" ->
            Ret(effect(W, [kind |-> "classes", name |-> p.name,
                           pointerId |-> e.pointerId, value |-> EffValue(p),
                           throws |-> FALSE]), "ok")
      [] hook = "dragEnd" ->
            Ret([W EXCEPT !.D.classes[W.I.ctx.rootNode] =
                    (@ \ {"neodrag-dragging"}) \cup {"neodrag-dragged"}], "ok")

\* axis.drag that passes both proposals on unchanged
axis_drag_mutant(p, W) ==
    Ret(propose(W, W.I.ctx.proposed.x, W.I.ctx.proposed.y), "ok")

\* axis.drag
axis_drag(p, W) ==
    IF ~HasState(W, p.name) THEN Ret(W, "throw")
    ELSE LET df == W.I.states[p.name].df
         IN  Ret(propose(W, IF df.x THEN W.I.ctx.proposed.x ELSE NULL,
                            IF df.y THEN W.I.ctx.proposed.y ELSE NULL), "ok")

axis_hook(p, hook, W, e) ==
    CASE hook = "shouldDrag" -> Ret(W, IF p.arg # "none" THEN "ok" ELSE "false")
      [] hook = "drag" -> axis_drag(p, W)

applyUserSelectHack_hook(p, hook, W, e) ==
    CASE hook = "dragStart" ->
            Ret(effect(W, [kind |-> "applyUserSelectHack", name |-> p.name,
                           pointerId |-> e.pointerId, value |-> EffValue(p),
                           throws |-> FALSE]), "ok")
      [] hook = "dragEnd" ->
            IF ~p.arg THEN Ret(W, "ok")
            ELSE IF ~HasState(W, p.name) THEN Ret(W, "throw")
            ELSE Ret([W EXCEPT !.D.userSelect =
                        W.I.states[p.name].body_user_select_val], "ok")

\* grid.drag that proposes the deltas without snapping them
grid_drag_mutant(p, W) ==
    Ret(propose(W, W.I.ctx.proposed.x, W.I.ctx.proposed.y), "ok")

\* grid.drag
grid_drag(p, W) ==
    LET s == snap_to_grid(p.arg, W.I.ctx.proposed.x, W.I.ctx.proposed.y)
    IN  Ret(propose(W, s.x, s.y), "ok")

\* transform.drag: the closure it queues writes the translate style
transform_drag(p, W, e) ==
    Ret(effect(W, [kind |-> "transform", name |-> p.name,
                   pointerId |-> e.pointerId, value |-> EffValue(p),
                           throws |-> FALSE]), "ok")

\* bounds.drag; the default shouldRecompute recomputes on dragStart only,
\* and the bound function returns the same rectangle every time
bounds_drag(p, W) ==
    IF ~HasState(W, p.name) THEN Ret(W, "throw")
    ELSE LET bound_coords == W.I.states[p.name].bounds
             element_width == W.I.ctx.cachedRootNodeRect.width
             element_height == W.I.ctx.cachedRootNodeRect.height
             min_x == bound_coords[1][1] - W.I.ctx.offset.x
             min_y == bound_coords[1][2] - W.I.ctx.offset.y
             max_x == bound_coords[2][1] - element_width - W.I.ctx.offset.x
             max_y == bound_coords[2][2] - element_height - W.I.ctx.offset.y
             px == W.I.ctx.proposed.x
             py == W.I.ctx.proposed.y
         IN  Ret(propose(W,
                    IF px # NULL THEN Some(clamp(px[1], min_x, max_x)) ELSE px,
                    IF py # NULL THEN Some(clamp(py[1], min_y, max_y)) ELSE py), "ok")

bounds_hook(p, hook, W, e) ==
    CASE hook = "dragStart" ->
            IF ~HasState(W, p.name) THEN Ret(W, "throw")
            ELSE Ret([W EXCEPT !.I.states[p.name].bounds = p.arg], "ok")
      [] hook = "drag" -> bounds_drag(p, W)
      [] hook = "dragEnd" -> Ret(W, "ok")

\* the user plugin described at probe
probe_hook(p, hook, W, e) ==
    LET W1 == IF p.arg.queue
              THEN effect(W, [kind |-> "probe", name |-> p.name,
                              pointerId |-> e.pointerId, value |-> TRUE,
                              throws |-> /\ p.arg.effThrows
                                         /\ (p.arg.on = {} \/
                                             (hook \in p.arg.on /\ e.altKey))])
              ELSE W
        act == IF hook \in p.arg.on /\ e.altKey THEN p.arg.act ELSE "ok"
    IN  CASE act = "ok" -> Ret(W1, "ok")
          [] act = "false" -> Ret(W1, "false")
          [] act = "throw" -> Ret(W1, "throw")
          [] act = "cancel" -> Ret(cancel(W1), "ok")
          [] act = "prevent" -> Ret(preventStart(W1), "ok")

\* handler(ctx, state, event) for hook in shouldDrag, dragStart, drag, dragEnd
CallHook(p, hook, W, e) ==
    CASE p.kind = "ignoreMultitouch" -> ignoreMultitouch_hook(p, hook, W, e)
      [] p.kind = "classes" -> classes_hook(p, hook, W, e)
      [] p.kind = "axis" -> axis_hook(p, hook, W, e)
      [] p.kind = "applyUserSelectHack" -> applyUserSelectHack_hook(p, hook, W, e)
      [] p.kind = "grid" -> grid_drag(p, W)
      [] p.kind = "disabled" -> Ret(W, "false")
      [] p.kind = "transform" -> transform_drag(p, W, e)
      [] p.kind = "bounds" -> bounds_hook(p, hook, W, e)
      [] p.kind = "probe" -> probe_hook(p, hook, W, e)

\* plugin.setup(ctx): value is the private state returned (NULL: undefined)
CallSetup(p, W) ==
    CASE p.kind = "ignoreMultitouch" ->
            [W |-> W, out |-> "ok", value |-> Some([active_pointers |-> {}])]
      [] p.kind = "classes" ->
            [W |-> [W EXCEPT !.D.classes[W.I.ctx.rootNode] = @ \cup {"neodrag"}],
             out |-> "ok", value |-> NULL]
      [] p.kind = "axis" ->
            [W |-> W, out |-> "ok",
             value |-> Some([df |-> [x |-> p.arg \in {"both", "x"},
                                     y |-> p.arg \in {"both", "y"}]])]
      [] p.kind = "applyUserSelectHack" ->
            [W |-> W, out |-> "ok", value |-> Some([body_user_select_val |-> ""])]
      [] p.kind = "bounds" ->
            [W |-> W, out |-> "ok", value |-> Some([bounds |-> p.arg])]
      [] p.kind = "probe" ->
            LET W1 == IF p.arg.queue
                      THEN effect(W, [kind |-> "probe", name |-> p.name,
                                      pointerId |-> NoPointer, value |-> TRUE,
                                      throws |-> p.arg.effThrows])
                      ELSE W
            IN  IF "setup" \in p.arg.on /\ p.arg.act = "throw"
                THEN [W |-> W1, out |-> "throw", value |-> NULL]
                ELSE [W |-> W1, out |-> "ok", value |-> Some([owner |-> p.uid])]

-----------------------------------------------------------------------------
(* Effects.  tainted and runs are history kept with each queued closure:   *)
(* tainted once the phase that queued it was vetoed, threw or cancelled,   *)
(* runs the number of times it has been executed.                          *)

\* the body of the closure eff
EffectBody(W, eff) ==
    CASE eff.kind = "ignoreMultitouch" ->
            IF ~HasState(W, eff.name) THEN [W |-> W, threw |-> TRUE]
            ELSE [W |-> [W EXCEPT !.I.states[eff.name].active_pointers =
                                        @ \cup {eff.pointerId}],
                  threw |-> FALSE]
      [] eff.kind = "classes" ->
            [W |-> [W EXCEPT !.D.classes[W.I.ctx.rootNode] = @ \cup {"neodrag-dragging"}],
             threw |-> FALSE]
      [] eff.kind = "applyUserSelectHack" ->
            IF ~eff.value THEN [W |-> W, threw |-> FALSE]
            ELSE IF ~HasState(W, eff.name) THEN [W |-> W, threw |-> TRUE]
            ELSE [W |-> [W EXCEPT
                          !.I.states[eff.name].body_user_select_val = W.D.userSelect,
                          !.D.userSelect = "none"],
                  threw |-> FALSE]
      [] eff.kind = "transform" ->
            [W |-> [W EXCEPT !.D.translate[W.I.ctx.rootNode] =
                        Some(<<W.I.ctx.offset.x, W.I.ctx.offset.y>>)],
             threw |-> FALSE]
      [] eff.kind = "probe" -> [W |-> W, threw |-> eff.throws]

\* effect(): run the i-th queued closure and note it in the history
RunEffect(W, i) ==
    LET eff == W.I.effects[i]
        W1 == [W EXCEPT !.I.effects[i].runs = Min2(@ + 1, 2),
                        !.H.ranTainted = @ \/ eff.tainted,
                        !.H.ranTwice = @ \/ eff.runs >= 1]
    IN  EffectBody(W1, eff)

RECURSIVE flush_from(_, _)
flush_from(W, i) ==
    IF i > Len(W.I.effects) THEN [W |-> [W EXCEPT !.I.effects = << >>], threw |-> FALSE]
    ELSE LET r == RunEffect(W, i)
         IN  IF r.threw THEN r ELSE flush_from(r.W, i + 1)

\* flush_effects: run every queued closure in insertion order, then clear;
\* a closure that throws leaves the queue as it is
flush_effects(W) == flush_from(W, 1)

\* clear_effects
clear_effects(W) == [W EXCEPT !.I.effects = << >>]

\* history: the closures queued since position k belong to a phase that was
\* vetoed, threw or cancelled
Taint(W, k) ==
    [W EXCEPT !.I.effects =
        [i \in 1..Len(@) |-> IF i > k THEN [@[i] EXCEPT !.tainted = TRUE] ELSE @[i]]]

-----------------------------------------------------------------------------
(* Handlers act on G: the engine's state (instances, active_node), the     *)
(* document D, the history H and the record of the running handler:        *)
(* calls, errs (onError reports), fired (notifications), uncaught (an      *)
(* exception left the handler), committed (the offset was committed),      *)
(* started (a dragStart chain passed).                                     *)

World(insts, active, D, H) ==
    [instances |-> insts, active_node |-> active, D |-> D, H |-> H,
     calls |-> << >>, errs |-> << >>, fired |-> << >>,
     uncaught |-> FALSE, committed |-> FALSE, started |-> FALSE]

\* the hooks' view of instance n
Enter(G, n) ==
    [I |-> G.instances[n], D |-> G.D, H |-> G.H, calls |-> G.calls,
     errs |-> G.errs, fired |-> G.fired, didCancel |-> FALSE]

Leave(G, n, W) ==
    [G EXCEPT !.instances[n] = W.I, !.D = W.D, !.H = W.H, !.calls = W.calls,
              !.errs = W.errs, !.fired = W.fired]

Uncaught(G) == [G EXCEPT !.uncaught = TRUE]

\* report_error: onError({...info, error})
report_error(W, phase, plugin) ==
    [W EXCEPT !.errs = Append(@, [phase |-> phase, plugin |-> plugin,
                                  node |-> W.I.ctx.rootNode])]

\* the plugin object whose setup returned states.get(name), '' when there is
\* no state or the state does not tell
StateOwner(W, name) ==
    IF name \notin DOMAIN W.I.states THEN ""
    ELSE IF "owner" \notin DOMAIN W.I.states[name] THEN ""
    ELSE W.I.states[name].owner

Called(W, plugin, hook) ==
    [W EXCEPT !.calls = Append(@, [node |-> W.I.ctx.rootNode, name |-> plugin.name,
                                   uid |-> plugin.uid, hook |-> hook,
                                   out |-> "", cancel |-> FALSE,
                                   owner |-> StateOwner(W, plugin.name)])]

\* a hook's result, with what it returned noted in the log of calls
Logged(r) == [r EXCEPT !.W.calls[Len(r.W.calls)].out = r.out]

\* the call of a hook
Invoke(plugin, hook, W, e) == Logged(CallHook(plugin, hook, Called(W, plugin, hook), e))

-----------------------------------------------------------------------------
(* createDraggable *)

\* the comparators the engines sort their plugins with
cd_compare(a, b) == b.priority - a.priority
si_compare(a, b) == a.priority - b.priority

\* comparator(a, b) of createDraggable (descending) or of draggable
compare(a, b, descending) == IF descending THEN cd_compare(a, b) ELSE si_compare(a, b)

\* the place of the i-th element after the stable Array.prototype.sort: a
\* negative compare(a, b) puts a first, equal elements keep their order
sort_rank(seq, i, descending) ==
    1 + Cardinality({j \in 1..Len(seq) :
            \/ compare(seq[j], seq[i], descending) < 0
            \/ compare(seq[j], seq[i], descending) = 0 /\ j < i})

\* [...plugin_map.values()].sort(comparator)
StableSort(seq, descending) ==
    [k \in 1..Len(seq) |->
        seq[CHOOSE i \in 1..Len(seq) : sort_rank(seq, i, descending) = k]]

IndexOfName(map, name) ==
    IF \E i \in 1..Len(map) : map[i].name = name
    THEN CHOOSE i \in 1..Len(map) : map[i].name = name
    ELSE 0

\* plugin_map.set(...) over the list: a Map keeps the position of a key's
\* first insertion
RECURSIVE cd_plugin_map(_, _, _)
cd_plugin_map(list, i, map) ==
    IF i > Len(list) THEN map
    ELSE LET plugin == list[i]
             at == IndexOfName(map, plugin.name)
         IN  IF at = 0 THEN cd_plugin_map(list, i + 1, Append(map, plugin))
             ELSE IF plugin.priority >= map[at].priority
                  THEN cd_plugin_map(list, i + 1, [map EXCEPT ![at] = plugin])
                  ELSE cd_plugin_map(list, i + 1, map)

\* initialize_plugins that leaves the plugins in the order of the Map
initialize_plugins_mutant(new_plugins) ==
    cd_plugin_map(new_plugins \o cfg.initial_plugins, 1, << >>)

\* initialize_plugins(new_plugins)
initialize_plugins(new_plugins) ==
    StableSort(cd_plugin_map(new_plugins \o cfg.initial_plugins, 1, << >>), TRUE)

RECURSIVE cd_run_from(_, _, _, _)
\* run_plugins on the result of resultify(handler) for the i-th plugin
cd_run_result(result, hook, e, i) ==
    IF result.out = "throw"
    THEN [W |-> report_error(result.W, hook, result.W.I.plugins[i].name),
          should_run |-> FALSE]
    ELSE IF result.out = "false" THEN [W |-> result.W, should_run |-> FALSE]
    ELSE cd_run_from(result.W, hook, e, i + 1)

\* the loop of run_plugins from the i-th plugin on
cd_run_from(W, hook, e, i) ==
    IF i > Len(W.I.plugins) THEN [W |-> W, should_run |-> TRUE]
    ELSE IF ~Defines(W.I.plugins[i], hook) THEN cd_run_from(W, hook, e, i + 1)
    ELSE IF W.I.current_drag_hook_cancelled /\ W.I.plugins[i].cancelable
         THEN cd_run_from(W, hook, e, i + 1)
    ELSE cd_run_result(Invoke(W.I.plugins[i], hook, W, e), hook, e, i)

\* history: the closures a chain queued (those after position k) are
\* tainted when the chain was vetoed, threw or cancelled
Phase(r, k) == [r EXCEPT !.W = IF ~r.should_run \/ r.W.didCancel THEN Taint(r.W, k) ELSE r.W]

\* run_plugins that reports a veto of the chain as a pass
cd_run_plugins_mutant(W, hook, e) ==
    [W |-> cd_run_from([W EXCEPT !.I.dragstart_prevented = FALSE, !.didCancel = FALSE],
                       hook, e, 1).W,
     should_run |-> TRUE]

\* run_plugins(instance, hook, event)
cd_run_plugins(W, hook, e) ==
    Phase(cd_run_from([W EXCEPT !.I.dragstart_prevented = FALSE, !.didCancel = FALSE],
                      hook, e, 1),
          Len(W.I.effects))

\* find_draggable_node: the first registered node of the event's path
find_draggable_node(G, e) ==
    LET path == composedPath(e.target)
        hits == {i \in 1..Len(path) : path[i] \in DOMAIN G.instances}
    IN  IF hits = {} THEN NoNode
        ELSE path[CHOOSE i \in hits : \A j \in hits : i <= j]

\* the inverse scale of handle_pointer_down (HTML elements)
cd_inverse_scale(W, n) == offsetWidth(n) \div W.I.ctx.cachedRootNodeRect.width

\* handle_pointer_down once the shouldDrag chain has passed
pointer_down_begin(W, e, draggable_node) ==
    LET inverse_scale == cd_inverse_scale(W, draggable_node)
    IN  [W EXCEPT
           !.I.ctx.isInteracting = TRUE,
           !.I.pointer_captured_id = e.pointerId,
           !.D = setPointerCapture(@, W.I.ctx.currentlyDraggedNode, e.pointerId),
           !.I.ctx.initial.x = IF W.I.ctx.proposed.x # NULL
                               THEN e.clientX - (W.I.ctx.offset.x \div inverse_scale)
                               ELSE @,
           !.I.ctx.initial.y = IF W.I.ctx.proposed.y # NULL
                               THEN e.clientY - (W.I.ctx.offset.y \div inverse_scale)
                               ELSE @]

\* the release of the pointer capture in cleanup_active_node
cleanup_release(W) ==
    IF /\ W.I.pointer_captured_id # NoPointer /\ W.I.pointer_captured_id # 0
       /\ hasPointerCapture(W.D, W.I.ctx.currentlyDraggedNode, W.I.pointer_captured_id)
    THEN [W EXCEPT !.D = releasePointerCapture(@, W.I.ctx.currentlyDraggedNode,
                                               W.I.pointer_captured_id)]
    ELSE W

\* the reset of cleanup_active_node
cleanup_reset(W) ==
    [W EXCEPT !.I.ctx.isInteracting = FALSE,
              !.I.ctx.isDragging = FALSE,
              !.I.dragstart_prevented = FALSE,
              !.I.pointer_captured_id = NoPointer]

\* cleanup_active_node that leaves the queued effects
cleanup_active_node_mutant(G) ==
    IF G.active_node = NoNode \/ G.active_node \notin DOMAIN G.instances THEN G
    ELSE [Leave(G, G.active_node, cleanup_reset(cleanup_release(Enter(G, G.active_node))))
          EXCEPT !.active_node = NoNode]

cleanup_active_node(G) ==
    IF G.active_node = NoNode \/ G.active_node \notin DOMAIN G.instances THEN G
    ELSE [Leave(G, G.active_node,
                clear_effects(cleanup_reset(cleanup_release(Enter(G, G.active_node)))))
          EXCEPT !.active_node = NoNode]

\* handle_pointer_down when setPointerCapture throws inside resultify
pointer_down_failed(W, e) ==
    report_error([W EXCEPT !.I.ctx.isInteracting = TRUE,
                           !.I.pointer_captured_id = e.pointerId],
                 "dragStart", "")

\* handle_pointer_down on should_drag, the result of the shouldDrag chain
pointer_down_should(G, e, draggable_node, should_drag) ==
    IF ~should_drag.should_run THEN Leave(G, draggable_node, should_drag.W)
    ELSE IF setPointerCaptureThrows(e.pointerId)
    THEN cleanup_active_node(
            [Leave(G, draggable_node, pointer_down_failed(should_drag.W, e))
             EXCEPT !.active_node = draggable_node])
    ELSE [Leave(G, draggable_node, pointer_down_begin(should_drag.W, e, draggable_node))
          EXCEPT !.active_node = draggable_node]

\* handle_pointer_down on the node find_draggable_node found
pointer_down_node(G, e, draggable_node) ==
    IF draggable_node = NoNode THEN G
    ELSE pointer_down_should(G, e, draggable_node,
            cd_run_plugins([Enter(G, draggable_node) EXCEPT
                               !.I.ctx.cachedRootNodeRect =
                                   getBoundingClientRect(G.D, draggable_node)],
                           "shouldDrag", e))

handle_pointer_down(G, e) ==
    IF e.button = 2 THEN G ELSE pointer_down_node(G, e, find_draggable_node(G, e))

\* handle_pointer_move on flushed, the outcome of flush_effects: the commit
move_commit(G, n, flushed) ==
    IF flushed.threw THEN Uncaught(Leave(G, n, flushed.W))
    ELSE [Leave(G, n,
            [flushed.W EXCEPT
               !.I.ctx.offset.x = @ + OrZero(flushed.W.I.ctx.proposed.x),
               !.I.ctx.offset.y = @ + OrZero(flushed.W.I.ctx.proposed.y)])
          EXCEPT !.committed = TRUE]

\* handle_pointer_move that flushes and commits whatever the drag chain
\* returned
move_ran_mutant(G, n, run_result) == move_commit(G, n, flush_effects(run_result.W))

\* handle_pointer_move on run_result, the result of the drag chain
move_ran(G, n, run_result) ==
    IF ~run_result.should_run THEN Leave(G, n, clear_effects(run_result.W))
    ELSE move_commit(G, n, flush_effects(run_result.W))

\* the delta and the proposal of handle_pointer_move
move_propose(W, e) ==
    LET dx == e.clientX - W.I.ctx.initial.x - W.I.ctx.offset.x
        dy == e.clientY - W.I.ctx.initial.y - W.I.ctx.offset.y
    IN  [W EXCEPT !.I.ctx.delta = [x |-> dx, y |-> dy],
                  !.I.ctx.proposed = [x |-> Some(dx), y |-> Some(dy)]]

\* the part of handle_pointer_move that follows the dragStart branch
cd_move_drag(G, n, W, e) == move_ran(G, n, cd_run_plugins(move_propose(W, e), "drag", e))

\* handle_pointer_move on flushed, the outcome of flush_effects after the
\* dragStart chain passed
move_started(G, n, flushed, e) ==
    IF flushed.threw THEN Uncaught(Leave(G, n, flushed.W))
    ELSE cd_move_drag([G EXCEPT !.started = TRUE], n,
                      [flushed.W EXCEPT !.I.ctx.isDragging = TRUE], e)

\* handle_pointer_move on start_drag, the result of the dragStart chain
move_start(G, n, start_drag, e) ==
    IF ~start_drag.should_run THEN Leave(G, n, clear_effects(start_drag.W))
    ELSE move_started(G, n, flush_effects(start_drag.W), e)

\* handle_pointer_move after the drag chain it runs before dragging
move_pre(G, n, W, e) ==
    IF W.I.dragstart_prevented \/ W.I.current_drag_hook_cancelled THEN Leave(G, n, W)
    ELSE move_start(G, n, cd_run_plugins(W, "dragStart", e), e)

\* handle_pointer_move on the interacting instance of the active node
move_instance(G, n, W, e) ==
    IF W.I.ctx.isDragging THEN cd_move_drag(G, n, W, e)
    ELSE move_pre(G, n,
            cd_run_plugins([W EXCEPT !.I.dragstart_prevented = FALSE], "drag", e).W, e)

handle_pointer_move(G, e) ==
    IF G.active_node = NoNode THEN G
    ELSE IF ~G.instances[G.active_node].ctx.isInteracting THEN G
    ELSE move_instance(G, G.active_node,
            [Enter(G, G.active_node) EXCEPT !.I.ctx.lastEvent = Some(e)], e)

\* the end of handle_pointer_up without its reset of isDragging
up_reset_mutant(W) ==
    [W EXCEPT
       !.I.ctx.initial.x = IF Truthy(W.I.ctx.proposed.x) THEN W.I.ctx.offset.x ELSE @,
       !.I.ctx.initial.y = IF Truthy(W.I.ctx.proposed.y) THEN W.I.ctx.offset.y ELSE @,
       !.I.ctx.proposed = [x |-> Some(0), y |-> Some(0)],
       !.I.ctx.isInteracting = FALSE,
       !.I.dragstart_prevented = FALSE,
       !.I.pointer_captured_id = NoPointer]

\* the end of handle_pointer_up
up_reset(W) ==
    [W EXCEPT
       !.I.ctx.initial.x = IF Truthy(W.I.ctx.proposed.x) THEN W.I.ctx.offset.x ELSE @,
       !.I.ctx.initial.y = IF Truthy(W.I.ctx.proposed.y) THEN W.I.ctx.offset.y ELSE @,
       !.I.ctx.proposed = [x |-> Some(0), y |-> Some(0)],
       !.I.ctx.isInteracting = FALSE,
       !.I.ctx.isDragging = FALSE,
       !.I.dragstart_prevented = FALSE,
       !.I.pointer_captured_id = NoPointer]

\* handle_pointer_up on flushed, the outcome of its flush_effects
up_flushed(G, n, flushed) ==
    IF flushed.threw THEN Uncaught(Leave(G, n, flushed.W))
    ELSE Leave(G, n, clear_effects(up_reset(flushed.W)))

\* the release of the pointer capture in handle_pointer_up
up_release(W) ==
    IF W.I.pointer_captured_id # NoPointer /\ W.I.pointer_captured_id # 0
    THEN [W EXCEPT !.D = releasePointerCapture(@, W.I.ctx.currentlyDraggedNode,
                                               W.I.pointer_captured_id)]
    ELSE W

handle_pointer_up(G, e) ==
    IF G.active_node = NoNode THEN G
    ELSE IF ~G.instances[G.active_node].ctx.isInteracting THEN G
    ELSE up_flushed(G, G.active_node,
            flush_effects(cd_run_plugins(up_release(Enter(G, G.active_node)),
                                         "dragEnd", e).W))

\* the instance draggable(node, plugins) builds before the plugins are set up
\* (meets_time_threshold and meets_distance_threshold belong to the
\* single-instance engine)
NewInstance(node, D) ==
    [ctx |-> [proposed |-> [x |-> Some(0), y |-> Some(0)],
              delta |-> [x |-> 0, y |-> 0],
              offset |-> [x |-> 0, y |-> 0],
              initial |-> [x |-> 0, y |-> 0],
              isDragging |-> FALSE,
              isInteracting |-> FALSE,
              rootNode |-> node,
              cachedRootNodeRect |-> getBoundingClientRect(D, node),
              lastEvent |-> NULL,
              currentlyDraggedNode |-> node],
     root_node |-> node,
     plugins |-> << >>,
     states |-> EmptyMap,
     dragstart_prevented |-> FALSE,
     current_drag_hook_cancelled |-> FALSE,
     pointer_captured_id |-> NoPointer,
     effects |-> << >>,
     meets_time_threshold |-> FALSE,
     meets_distance_threshold |-> FALSE]

\* plugin.setup?.(ctx): the world it leaves, its outcome and its value
Setup(W, plugin) ==
    IF Defines(plugin, "setup") THEN Logged(CallSetup(plugin, Called(W, plugin, "setup")))
    ELSE [W |-> W, out |-> "ok", value |-> NULL]

\* instance.states.set(plugin.name, value) if (value)
SetState(W, plugin, value) ==
    IF value # NULL THEN [W EXCEPT !.I.states = Put(@, plugin.name, value[1])] ELSE W

\* resultify on flushed, the outcome of the flush_effects of a setup round
setup_flushed(flushed, plugin) ==
    IF flushed.threw THEN report_error(flushed.W, "setup", plugin.name) ELSE flushed.W

\* resultify on r, the outcome of the setup of a round; the closures after
\* position k are those the setup queued
setup_called(r, plugin, k) ==
    IF r.out = "throw" THEN report_error(Taint(r.W, k), "setup", plugin.name)
    ELSE setup_flushed(flush_effects(SetState(r.W, plugin, r.value)), plugin)

\* one round of the initial setup loop: resultify(() => { setup; set; flush })
cd_setup_one(W, plugin) == setup_called(Setup(W, plugin), plugin, Len(W.I.effects))

RECURSIVE cd_setup_from(_, _)
cd_setup_from(W, i) ==
    IF i > Len(W.I.plugins) THEN W
    ELSE cd_setup_from(cd_setup_one(W, W.I.plugins[i]), i + 1)

\* draggable(node, plugins) from the initial setup on
cd_register(G, node) == Leave(G, node, cd_setup_from(Enter(G, node), 1))

\* createDraggable(...).draggable(node, plugins)
cd_draggable(G, node, plugins) ==
    cd_register([G EXCEPT !.instances =
                    Put(@, node, [NewInstance(node, G.D) EXCEPT
                                     !.plugins = initialize_plugins(plugins)])],
                node)

\* plugin.cleanup?.(ctx, state)
CallCleanup(W, plugin) ==
    IF Defines(plugin, "cleanup") THEN Called(W, plugin, "cleanup") ELSE W

\* update_plugin on flushed, the outcome of its flush_effects
update_flushed(flushed, new_plugin, value) ==
    IF flushed.threw THEN [W |-> flushed.W, changed |-> FALSE, threw |-> TRUE]
    ELSE [W |-> SetState(flushed.W, new_plugin, value), changed |-> TRUE, threw |-> FALSE]

\* update_plugin on r, the outcome of the new plugin's setup
update_called(r, new_plugin, k) ==
    IF r.out = "throw" THEN [W |-> Taint(r.W, k), changed |-> FALSE, threw |-> TRUE]
    ELSE update_flushed(flush_effects(r.W), new_plugin, r.value)

\* the cleanup of the old plugin in update_plugin
update_cleanup(W, old_plugin, new_plugin) ==
    IF old_plugin # NULL /\ ~SameObject(old_plugin[1], new_plugin)
    THEN [CallCleanup(W, old_plugin[1]) EXCEPT !.I.states = Del(@, old_plugin[1].name)]
    ELSE W

\* update_plugin; changed is its return value, threw an exception leaving it
update_plugin(W, old_plugin, new_plugin) ==
    IF old_plugin # NULL /\ SameObject(old_plugin[1], new_plugin) /\ ~new_plugin.liveUpdate
    THEN [W |-> W, changed |-> FALSE, threw |-> FALSE]
    ELSE update_called(Setup(update_cleanup(W, old_plugin, new_plugin), new_plugin),
                       new_plugin, Len(W.I.effects))

\* old_plugin_map.get(name)
old_plugin_of(old_list, name) ==
    LET hits == {i \in 1..Len(old_list) : old_list[i].name = name}
    IN  IF hits = {} THEN NULL
        ELSE Some(old_list[CHOOSE i \in hits : \A j \in hits : j <= i])

RECURSIVE update_each(_, _, _, _, _)
\* the loop on r, the outcome of update_plugin for the i-th plugin
update_next(r, old_list, list, i, has_changes) ==
    IF r.threw THEN [W |-> r.W, has_changes |-> has_changes, threw |-> TRUE]
    ELSE update_each(r.W, old_list, list, i + 1, has_changes \/ r.changed)

\* for (const plugin of list) if (update_plugin(...)) has_changes = true
update_each(W, old_list, list, i, has_changes) ==
    IF i > Len(list) THEN [W |-> W, has_changes |-> has_changes, threw |-> FALSE]
    ELSE update_next(update_plugin(W, old_plugin_of(old_list, list[i].name), list[i]),
                     old_list, list, i, has_changes)

RECURSIVE cleanup_each(_, _, _)
cleanup_each(W, list, i) ==
    IF i > Len(list) THEN W
    ELSE cleanup_each([CallCleanup(W, list[i]) EXCEPT !.I.states = Del(@, list[i].name)],
                      list, i + 1)

\* update during an interaction, on r, the outcome of its loop
update_live(G, n, r) ==
    IF r.threw THEN Uncaught(Leave(G, n, r.W))
    ELSE IF r.has_changes /\ G.active_node = n /\ r.W.I.ctx.lastEvent # NULL
         THEN handle_pointer_move(Leave(G, n, r.W), r.W.I.ctx.lastEvent[1])
         ELSE Leave(G, n, r.W)

\* update outside an interaction, on r, the outcome of its loop
update_idle(G, n, r, new_plugin_list) ==
    IF r.threw THEN Uncaught(Leave(G, n, r.W))
    ELSE Leave(G, n, IF r.has_changes THEN [r.W EXCEPT !.I.plugins = new_plugin_list]
                     ELSE r.W)

\* the plugins of old_list that new_plugin_list does not name
removed_plugins(old_list, new_plugin_list) ==
    SelectSeq(old_list, LAMBDA q :
        ~\E i \in 1..Len(new_plugin_list) : new_plugin_list[i].name = q.name)

\* update on the sorted list of the new plugins
update_list(G, n, W, new_plugin_list) ==
    IF W.I.ctx.isDragging \/ W.I.ctx.isInteracting
    THEN update_live(G, n,
            update_each(W, W.I.plugins,
                        SelectSeq(new_plugin_list, LAMBDA q : q.liveUpdate), 1, FALSE))
    ELSE update_idle(G, n,
            update_each(cleanup_each(W, removed_plugins(W.I.plugins, new_plugin_list), 1),
                        W.I.plugins, new_plugin_list, 1,
                        Len(removed_plugins(W.I.plugins, new_plugin_list)) > 0),
            new_plugin_list)

\* update(instance, new_plugins)
update(G, n, new_plugins) == update_list(G, n, Enter(G, n), initialize_plugins(new_plugins))

RECURSIVE destroy_each(_, _, _)
destroy_each(W, list, i) ==
    IF i > Len(list) THEN W ELSE destroy_each(CallCleanup(W, list[i]), list, i + 1)

\* destroy() that leaves the instance in the registry
cd_removed_mutant(G, n) ==
    [G EXCEPT !.active_node = IF @ = n THEN NoNode ELSE @]

\* the removal of the instance in destroy()
cd_removed(G, n) ==
    [G EXCEPT !.active_node = IF @ = n THEN NoNode ELSE @, !.instances = Del(@, n)]

\* the destroy() of the handle draggable(node, plugins) returns
cd_destroy(G, n) ==
    cd_removed(Leave(G, n, destroy_each(Enter(G, n), G.instances[n].plugins, 1)), n)

-----------------------------------------------------------------------------
(* draggable(node, options): the single-instance engine.  Its closure      *)
(* variables are the fields of the one instance record: is_interacting is  *)
(* ctx.isInteracting, is_dragging ctx.isDragging, x_offset/y_offset        *)
(* ctx.offset, initial_x/initial_y ctx.initial, proposals ctx.proposed,    *)
(* effects_to_run effects, ordered_plugins plugins, private_states states. *)

\* plugin_map.set(plugin.name, plugin) unless an entry of at least its
\* priority is there; at is the position of the entry of that name
si_plugin_put(map, plugin, at) ==
    IF at = 0 THEN Append(map, plugin)
    ELSE IF plugin.priority > map[at].priority THEN [map EXCEPT ![at] = plugin]
    ELSE map

RECURSIVE si_plugin_map(_, _, _)
si_plugin_map(list, i, map) ==
    IF i > Len(list) THEN map
    ELSE si_plugin_map(list, i + 1,
                       si_plugin_put(map, list[i], IndexOfName(map, list[i].name)))


ordered_plugins(user_plugins) ==
    StableSort(si_plugin_map(default_plugins \o user_plugins, 1, << >>), FALSE)

RECURSIVE si_setup_from(_, _, _)
\* the setup loop on r, the outcome of the i-th setup
si_setup_next(r, list, i) ==
    IF r.out = "throw" THEN [W |-> r.W, threw |-> TRUE]
    ELSE si_setup_from(SetState(r.W, list[i], r.value), list, i + 1)

\* the setup loop over default_plugins.concat(user_plugins); a setup that
\* throws leaves draggable() with the exception
si_setup_from(W, list, i) ==
    IF i > Len(list) THEN [W |-> W, threw |-> FALSE]
    ELSE si_setup_next(Setup(W, list[i]), list, i)

\* draggable(node, options) on r, the outcome of the setup loop
si_registered(G, node, r) ==
    IF r.threw THEN Uncaught([Leave(G, node, r.W) EXCEPT !.instances = Del(@, node)])
    ELSE Leave(G, node, r.W)

\* draggable(node, options) from the setup loop on
si_register(G, node, user_plugins) ==
    si_registered(G, node, si_setup_from(Enter(G, node), default_plugins \o user_plugins, 1))

\* draggable(node, options) up to the registration of the listeners
si_draggable(G, node, user_plugins) ==
    si_register([G EXCEPT !.instances =
                    Put(@, node, [NewInstance(node, G.D) EXCEPT
                                     !.plugins = ordered_plugins(user_plugins)])],
                node, user_plugins)

RECURSIVE si_run_from(_, _, _, _)
\* run_plugins on r, the outcome of the hook of the i-th plugin
si_run_result(r, hook, e, i) ==
    IF r.out = "throw" THEN [W |-> r.W, should_run |-> FALSE, threw |-> TRUE]
    ELSE IF r.out = "false" THEN [W |-> r.W, should_run |-> FALSE, threw |-> FALSE]
    ELSE IF r.W.I.current_drag_hook_cancelled
         THEN [W |-> [r.W EXCEPT !.I.current_drag_hook_cancelled = FALSE],
               should_run |-> FALSE, threw |-> FALSE]
    ELSE si_run_from(r.W, hook, e, i + 1)

\* the loop of run_plugins from the i-th plugin on
si_run_from(W, hook, e, i) ==
    IF i > Len(W.I.plugins) THEN [W |-> W, should_run |-> TRUE, threw |-> FALSE]
    ELSE IF ~Defines(W.I.plugins[i], hook) THEN si_run_from(W, hook, e, i + 1)
    ELSE si_run_result(Invoke(W.I.plugins[i], hook, W, e), hook, e, i)

\* run_plugins(hook, event) of draggable(node, options)
si_run_plugins(W, hook, e) ==
    Phase(si_run_from([W EXCEPT !.didCancel = FALSE], hook, e, 1), Len(W.I.effects))

\* calculate_inverse_scale (0 / 0 is NaN and counts as 1)
calculate_inverse_scale(W, n) ==
    IF W.I.ctx.cachedRootNodeRect.width = 0 THEN 1
    ELSE offsetWidth(n) \div W.I.ctx.cachedRootNodeRect.width

\* call_event: the CustomEvent dispatched on the node and the callback
call_event(W, eventName, transform_x, transform_y) ==
    [W EXCEPT !.fired = Append(@, [name |-> eventName, offsetX |-> transform_x,
                                   offsetY |-> transform_y])]

si_reset_state(W) ==
    clear_effects([W EXCEPT !.I.ctx.isDragging = FALSE,
                            !.I.meets_time_threshold = FALSE,
                            !.I.meets_distance_threshold = FALSE])

\* try_start_drag on f, the outcome of its flush_effects
start_flushed(f) ==
    IF f.threw THEN [W |-> f.W, threw |-> TRUE, started |-> FALSE]
    ELSE [W |-> call_event([f.W EXCEPT !.I.ctx.isDragging = TRUE], "neodrag_start",
                           f.W.I.ctx.initial.x, f.W.I.ctx.initial.y),
          threw |-> FALSE, started |-> TRUE]

\* try_start_drag on r, the outcome of run_plugins('dragStart')
start_ran(r) ==
    IF r.threw THEN [W |-> r.W, threw |-> TRUE, started |-> FALSE]
    ELSE IF ~r.should_run
         THEN [W |-> clear_effects(r.W), threw |-> FALSE, started |-> FALSE]
    ELSE start_flushed(flush_effects(r.W))

\* try_start_drag; threw: an exception left it
try_start_drag(W, e) ==
    IF W.I.ctx.isInteracting /\ ~W.I.ctx.isDragging
       /\ W.I.meets_distance_threshold /\ W.I.meets_time_threshold
    THEN start_ran(si_run_plugins([W EXCEPT !.I.ctx.delta = [x |-> 0, y |-> 0]],
                                  "dragStart", e))
    ELSE [W |-> W, threw |-> FALSE, started |-> FALSE]

\* the initial_x / initial_y of the pointerdown listener
down_initial(W, e, inverse_scale) ==
    [W EXCEPT !.I.ctx.initial.x = IF W.I.ctx.proposed.x # NULL
                                  THEN e.clientX - (W.I.ctx.offset.x \div inverse_scale)
                                  ELSE @,
              !.I.ctx.initial.y = IF W.I.ctx.proposed.y # NULL
                                  THEN e.clientY - (W.I.ctx.offset.y \div inverse_scale)
                                  ELSE @]

\* the pointerdown listener from is_interacting = true on
down_begin(W, n, e) ==
    [W EXCEPT !.I.ctx.isInteracting = TRUE,
              !.I.meets_time_threshold = IF cfg.threshold.delay = 0 THEN TRUE ELSE @,
              !.I.ctx.cachedRootNodeRect = getBoundingClientRect(W.D, n)]

\* the pointerdown listener on W, the world with the rectangle cached
down_scaled(W, n, e) == down_initial(W, e, calculate_inverse_scale(W, n))

\* the pointerdown listener on r, the outcome of run_plugins('shouldDrag')
down_ran(G, n, r, e) ==
    IF r.threw THEN Uncaught(Leave(G, n, r.W))
    ELSE IF ~r.should_run THEN Leave(G, n, r.W)
    ELSE IF ~contains(r.W.I.ctx.currentlyDraggedNode, e.target) THEN Leave(G, n, r.W)
    ELSE Leave(G, n, down_scaled(down_begin(r.W, n, e), n, e))

\* the pointerdown listener
si_pointerdown(G, n, e) ==
    IF e.button = 2 THEN G
    ELSE down_ran(G, n, si_run_plugins(Enter(G, n), "shouldDrag", e), e)

\* the end of the pointermove listener on f, the outcome of flush_effects
drag_flushed(G, n, f) ==
    IF f.threw THEN Uncaught(Leave(G, n, f.W))
    ELSE [Leave(G, n,
            [call_event(f.W, "neodrag",
                        f.W.I.ctx.offset.x + OrZero(f.W.I.ctx.proposed.x),
                        f.W.I.ctx.offset.y + OrZero(f.W.I.ctx.proposed.y))
             EXCEPT !.I.ctx.offset.x = @ + OrZero(f.W.I.ctx.proposed.x),
                    !.I.ctx.offset.y = @ + OrZero(f.W.I.ctx.proposed.y)])
          EXCEPT !.committed = TRUE]

\* the pointermove listener on r, the outcome of run_plugins('drag')
drag_ran(G, n, r) ==
    IF r.threw THEN Uncaught(Leave(G, n, r.W))
    ELSE IF ~r.should_run THEN Leave(G, n, clear_effects(r.W))
    ELSE drag_flushed(G, n, flush_effects(r.W))

\* the delta and the proposals of the pointermove listener
drag_propose(W, e) ==
    [W EXCEPT !.I.ctx.delta = [x |-> e.clientX - W.I.ctx.initial.x - W.I.ctx.offset.x,
                               y |-> e.clientY - W.I.ctx.initial.y - W.I.ctx.offset.y],
              !.I.ctx.proposed =
                  [x |-> Some(e.clientX - W.I.ctx.initial.x - W.I.ctx.offset.x),
                   y |-> Some(e.clientY - W.I.ctx.initial.y - W.I.ctx.offset.y)]]

\* the part of the pointermove listener that follows the thresholds
si_move_drag(G, n, W, e) == drag_ran(G, n, si_run_plugins(drag_propose(W, e), "drag", e))

\* the pointermove listener on d, the outcome of the distance threshold
move_checked(G, n, d, e) ==
    IF d.threw THEN Uncaught(Leave(G, n, d.W))
    ELSE IF ~d.W.I.ctx.isDragging THEN Leave(G, n, d.W)
    ELSE si_move_drag(G, n, d.W, e)

\* the same, recording whether a drag started in this listener
move_checked_started(G, n, d, e) ==
    move_checked([G EXCEPT !.started = d.started], n, d, e)

\* the distance threshold of the pointermove listener
move_distance(W, e) ==
    IF ~W.I.meets_distance_threshold
       /\ (e.clientX - W.I.ctx.initial.x) * (e.clientX - W.I.ctx.initial.x)
          + (e.clientY - W.I.ctx.initial.y) * (e.clientY - W.I.ctx.initial.y)
          >= cfg.threshold.distance * cfg.threshold.distance
    THEN try_start_drag([W EXCEPT !.I.meets_distance_threshold = TRUE], e)
    ELSE [W |-> W, threw |-> FALSE, started |-> FALSE]

\* the started of d, also when the time threshold started the drag
move_or_started(d, started) == [d EXCEPT !.started = @ \/ started]

\* the pointermove listener on t, the outcome of the time threshold
move_timed(G, n, t, e) ==
    IF t.threw THEN Uncaught(Leave(G, n, t.W))
    ELSE move_checked_started(G, n, move_or_started(move_distance(t.W, e), t.started), e)

\* the time threshold of the pointermove listener
move_time(W, e, late) ==
    IF ~W.I.meets_time_threshold /\ late
    THEN try_start_drag([W EXCEPT !.I.meets_time_threshold = TRUE], e)
    ELSE [W |-> W, threw |-> FALSE, started |-> FALSE]

\* the pointermove listener of an interacting instance
move_interacting(G, n, W, e, late) ==
    IF W.I.ctx.isDragging THEN si_move_drag(G, n, W, e)
    ELSE move_timed(G, n, move_time(W, e, late), e)

\* the pointermove listener; late: Date.now() - start_time >= threshold.delay
si_pointermove(G, n, e, late) ==
    IF ~G.instances[n].ctx.isInteracting THEN G
    ELSE move_interacting(G, n, Enter(G, n), e, late)

\* the pointerup listener after run_plugins('dragEnd')
up_end(W) ==
    si_reset_state(
        [call_event(W, "neodrag_end",
                    IF Truthy(W.I.ctx.proposed.x) THEN W.I.ctx.offset.x
                    ELSE W.I.ctx.initial.x,
                    IF Truthy(W.I.ctx.proposed.y) THEN W.I.ctx.offset.y
                    ELSE W.I.ctx.initial.y)
         EXCEPT !.I.ctx.initial.x = IF Truthy(W.I.ctx.proposed.x) THEN W.I.ctx.offset.x
                                    ELSE @,
                !.I.ctx.initial.y = IF Truthy(W.I.ctx.proposed.y) THEN W.I.ctx.offset.y
                                    ELSE @,
                !.I.ctx.proposed = [x |-> Some(0), y |-> Some(0)],
                !.I.ctx.isInteracting = FALSE])

\* the pointerup listener on r, the outcome of run_plugins('dragEnd')
up_ran(G, n, r) ==
    IF r.threw THEN Uncaught(Leave(G, n, r.W)) ELSE Leave(G, n, up_end(r.W))

\* the pointerup listener
si_pointerup(G, n, e) ==
    IF ~G.instances[n].ctx.isInteracting THEN G
    ELSE up_ran(G, n, si_run_plugins(Enter(G, n), "dragEnd", e))

\* the destroy() of the handle draggable(node, options) returns
si_destroy(G, n) ==
    [Leave(G, n, destroy_each(Enter(G, n), G.instances[n].plugins, 1))
     EXCEPT !.instances = Del(@, n)]

-----------------------------------------------------------------------------
(* The embedding page.  cfg fixes what a run may do: the engines, the      *)
(* factory plugins of createDraggable (initial_plugins), the plugin lists  *)
(* a caller may pass when attaching (lists), the nodes it attaches, the    *)
(* pointers, buttons, coordinates (xs, ys) and altKey values (alts) of the *)
(* events, the threshold option of draggable(node, options), how far an   *)
(* offset may be for a press to be modelled (reach), and which parts of    *)
(* the history a run keeps (track).                                        *)

Events ==
    [pointerId : cfg.pointers, button : cfg.buttons, clientX : cfg.xs,
     clientY : cfg.ys, target : cfg.nodes \cup {"body"}, altKey : cfg.alts]

\* move and up events: the engines read neither the button nor the target
MoveEvents == {e \in Events : e.button = 0 /\ e.target = "body"}

InitHist ==
    [ranTainted |-> FALSE, ranTwice |-> FALSE,
     cyc |-> [open |-> FALSE, single |-> FALSE, started |-> FALSE, node |-> NoNode,
              base |-> [x |-> 0, y |-> 0]],
     last |-> [n \in Nodes |-> [vetoed |-> FALSE, idle |-> TRUE, hooks |-> FALSE]],
     pressed |-> [n \in Nodes |-> {}],
     multi |-> [n \in Nodes |-> NoPointer],
     given |-> [n \in Nodes |-> << >>], sel |-> "",
     begun |-> [n \in Nodes |-> FALSE],
     near |-> [open |-> FALSE, node |-> NoNode, at0 |-> [x |-> 0, y |-> 0],
               far |-> FALSE],
     asked |-> [n \in Nodes |-> [list |-> << >>, during |-> FALSE]],
     gone |-> [n \in Nodes |-> ""]]

Quiet(kind) ==
    [kind |-> kind, handled |-> FALSE, node |-> NoNode, pid |-> NoPointer,
     at |-> [x |-> 0, y |-> 0], rose |-> {},
     off |-> [x |-> 0, y |-> 0], committed |-> FALSE, started |-> FALSE,
     vetoed |-> FALSE, uncaught |-> FALSE, calls |-> << >>, errs |-> << >>,
     fired |-> << >>]

\* a shouldDrag hook of n returned false in the handler
Vetoed(G, n) ==
    \E i \in 1..Len(G.calls) :
        /\ G.calls[i].node = n
        /\ G.calls[i].hook = "shouldDrag"
        /\ G.calls[i].out = "false"

\* what the handler that led from the current state to G did: whether it
\* changed anything (handled), the node it was for, the pointer position
\* (at), the nodes whose isDragging it turned true (rose), the offset
\* before it (off), and,
\* when the run tracks calls, the hooks it invoked, its onError reports
\* and its notifications
Observe(kind, n, e, G) ==
         [kind |-> kind, handled |-> G # World(instances, active_node, dom, hist),
          node |-> n,
          pid |-> IF e = NULL \/ "at" \notin cfg.track THEN NoPointer
                  ELSE e[1].pointerId,
          at |-> IF e = NULL \/ "at" \notin cfg.track THEN [x |-> 0, y |-> 0]
                 ELSE [x |-> e[1].clientX, y |-> e[1].clientY],
          rose |-> {m \in DOMAIN instances \cap DOMAIN G.instances :
                        /\ ~instances[m].ctx.isDragging
                        /\ G.instances[m].ctx.isDragging},
          off |-> IF n \in DOMAIN instances /\ "at" \in cfg.track
                  THEN instances[n].ctx.offset
                  ELSE [x |-> 0, y |-> 0],
          committed |-> G.committed, started |-> G.started,
          vetoed |-> n # NoNode /\ Vetoed(G, n),
          uncaught |-> G.uncaught,
          calls |-> IF "calls" \in cfg.track THEN G.calls ELSE << >>,
          errs |-> IF "calls" \in cfg.track THEN G.errs ELSE << >>,
          fired |-> IF "calls" \in cfg.track THEN G.fired ELSE << >>]

InitWith(c) ==
    /\ cfg = c
    /\ engine \in c.engines
    /\ instances = EmptyMap
    /\ active_node = NoNode
    /\ dom \in {[InitDom EXCEPT !.userSelect = v] : v \in c.selects}
    /\ down = {}
    /\ hist = InitHist
    /\ obs = Quiet("init")

QueuesShort == \A n \in DOMAIN instances : Len(instances[n].effects) <= MaxQueue

OffsetSmall(n) ==
    n \in DOMAIN instances =>
        /\ Abs(instances[n].ctx.offset.x) <= cfg.reach
        /\ Abs(instances[n].ctx.offset.y) <= cfg.reach

\* the node whose instance a pointer-down reaches
HitNode(e) ==
    IF engine = "create" THEN find_draggable_node(World(instances, active_node, dom, hist), e)
    ELSE IF DOMAIN instances = {} THEN NoNode
    ELSE CHOOSE n \in DOMAIN instances : TRUE

\* the node whose instance a pointer-move or pointer-up reaches
ActiveNode ==
    IF engine = "create" THEN active_node
    ELSE IF DOMAIN instances = {} THEN NoNode
    ELSE CHOOSE n \in DOMAIN instances : TRUE

DragHookCalled(G, n) ==
    \E i \in 1..Len(G.calls) :
        G.calls[i].node = n /\ G.calls[i].hook \in {"dragStart", "drag"}

HistHooks(H, G) ==
    [H EXCEPT !.last = [n \in Nodes |->
        [@[n] EXCEPT !.hooks = @ \/ DragHookCalled(G, n)]]]

\* the history a run keeps
Tracked(H) ==
    [H EXCEPT !.cyc = IF "cyc" \in cfg.track THEN @ ELSE InitHist.cyc,
              !.last = IF "last" \in cfg.track THEN @ ELSE InitHist.last,
              !.pressed = IF "pressed" \in cfg.track THEN @ ELSE InitHist.pressed,
              !.multi = IF "pressed" \in cfg.track THEN @ ELSE InitHist.multi,
              !.given = IF "given" \in cfg.track THEN @ ELSE InitHist.given,
              !.sel = IF "sel" \in cfg.track THEN @ ELSE InitHist.sel,
              !.begun = IF "begun" \in cfg.track THEN @ ELSE InitHist.begun,
              !.near = IF "near" \in cfg.track THEN @ ELSE InitHist.near,
              !.asked = IF "asked" \in cfg.track THEN @ ELSE InitHist.asked,
              !.gone = IF "gone" \in cfg.track THEN @ ELSE InitHist.gone]

\* history: whether the last of the drag-start and drag-end notifications
\* fired so far (begun, then fired from position i on) was a drag-start
RECURSIVE Begun(_, _, _)
Begun(begun, fired, i) ==
    IF i > Len(fired) THEN begun
    ELSE Begun(IF fired[i].name = "neodrag_start" THEN TRUE
               ELSE IF fired[i].name = "neodrag_end" THEN FALSE
               ELSE begun,
               fired, i + 1)

HistFired(H, G, n) ==
    IF n = NoNode THEN H ELSE [H EXCEPT !.begun[n] = Begun(@, G.fired, 1)]

Commit(kind, n, e, G, H) ==
    /\ instances' = G.instances
    /\ active_node' = G.active_node
    /\ hist' = Tracked(HistFired(H, G, n))
    /\ obs' = Observe(kind, n, e, G)
    /\ UNCHANGED <<engine, cfg>>

-----------------------------------------------------------------------------
(* Actions *)

\* the state after a handler of the page that left the world G
Done(kind, n, e, G) == Commit(kind, n, e, G, G.H) /\ dom' = G.D

\* history: the plugin list a node was attached with
DoneAttach(n, plugins, G) ==
    Commit("attach", n, NULL, G, [G.H EXCEPT !.given[n] = plugins, !.gone[n] = ""])
    /\ dom' = G.D

\* createDraggable(...).draggable(node, plugins), with one of the lists
Attach(n, i) ==
    /\ engine = "create"
    /\ n \in cfg.nodes \ DOMAIN instances
    /\ DoneAttach(n, cfg.lists[i],
                  cd_draggable(World(instances, active_node, dom, hist), n, cfg.lists[i]))
    /\ UNCHANGED down

\* draggable(node, options), with one of the lists as options.plugins
SingleAttach(n, i) ==
    /\ engine = "single"
    /\ instances = EmptyMap
    /\ n \in cfg.nodes
    /\ DoneAttach(n, cfg.lists[i],
                  si_draggable(World(instances, active_node, dom, hist), n, cfg.lists[i]))
    /\ UNCHANGED down

HistDown(H, G, n, e) ==
    LET handled == e.button # 2 /\ n # NoNode
        onNode == n # NoNode /\ contains(n, e.target)
        H1 == [H EXCEPT
                 !.cyc = IF down = {}
                         THEN [open |-> TRUE, single |-> TRUE, started |-> FALSE,
                               node |-> n,
                               base |-> IF n = NoNode THEN [x |-> 0, y |-> 0]
                                        ELSE [x |-> e.clientX - instances[n].ctx.offset.x,
                                              y |-> e.clientY - instances[n].ctx.offset.y]]
                         ELSE [@ EXCEPT !.single = FALSE],
                 !.sel = IF down = {} THEN dom.userSelect ELSE @,
                 !.near = IF down = {}
                          THEN [open |-> TRUE, node |-> n,
                                at0 |-> [x |-> e.clientX, y |-> e.clientY],
                                far |-> FALSE]
                          ELSE @]
    IN  IF ~handled THEN H1
        ELSE [H1 EXCEPT
                !.last[n] = [vetoed |-> Vetoed(G, n),
                             idle |-> /\ ~instances[n].ctx.isInteracting
                                      /\ ~instances[n].ctx.isDragging,
                             hooks |-> FALSE],
                !.pressed[n] = IF onNode THEN @ \cup {e.pointerId} ELSE @,
                !.multi[n] = IF /\ @ = NoPointer
                                /\ onNode
                                /\ instances[n].ctx.isDragging
                                /\ H.pressed[n] # {}
                             THEN e.pointerId ELSE @]

\* the pointer-down handler of the engine, for the node n the event reaches
OnDown(G, n, e) ==
    IF engine = "create" THEN handle_pointer_down(G, e)
    ELSE IF n = NoNode THEN G
    ELSE si_pointerdown(G, n, e)

DoneDown(n, e, G) == Commit("down", n, Some(e), G, HistDown(G.H, G, n, e)) /\ dom' = G.D

PointerDown(e) ==
    /\ e.pointerId \notin down
    /\ QueuesShort
    /\ OffsetSmall(HitNode(e))
    /\ DoneDown(HitNode(e), e,
                OnDown(World(instances, active_node, dom, hist), HitNode(e), e))
    /\ down' = down \cup {e.pointerId}

HistMove(H, G) ==
    [HistHooks(H, G) EXCEPT !.cyc.started = @ \/ (H.cyc.open /\ G.started)]

\* the pointer-move handler of the engine, for the active node n
OnMove(G, n, e, late) ==
    IF n = NoNode THEN G
    ELSE IF engine = "create" THEN handle_pointer_move(G, e)
    ELSE si_pointermove(G, n, e, late)

\* history: whether a pointer-move of the open cycle was threshold.distance
\* or more away from the position of its pointer-down
HistFar(H, e) ==
    IF e = NULL THEN H
    ELSE [H EXCEPT !.near.far =
            @ \/ (e[1].clientX - H.near.at0.x) * (e[1].clientX - H.near.at0.x)
                 + (e[1].clientY - H.near.at0.y) * (e[1].clientY - H.near.at0.y)
                 >= cfg.threshold.distance * cfg.threshold.distance]

DoneMove(kind, n, e, G) ==
    Commit(kind, n, e, G, HistFar(HistMove(G.H, G), e)) /\ dom' = G.D

PointerMove(e, late) ==
    /\ e.pointerId \in down
    /\ QueuesShort
    /\ DoneMove("move", ActiveNode, Some(e),
                OnMove(World(instances, active_node, dom, hist), ActiveNode, e, late))
    /\ UNCHANGED down

HistUp(H, G, e) ==
    [HistHooks(H, G) EXCEPT
        !.cyc = IF down \ {e.pointerId} = {} THEN InitHist.cyc ELSE @,
        !.near = IF down \ {e.pointerId} = {} THEN InitHist.near ELSE @,
        !.pressed = [n \in Nodes |-> @[n] \ {e.pointerId}],
        !.multi = [n \in Nodes |->
                      IF @[n] = e.pointerId \/ H.pressed[n] \ {e.pointerId} = {}
                      THEN NoPointer ELSE @[n]]]

\* the pointer-up handler of the engine, for the active node n
OnUp(G, n, e) ==
    IF n = NoNode THEN G
    ELSE IF engine = "create" THEN handle_pointer_up(G, e)
    ELSE si_pointerup(G, n, e)

DoneUp(n, e, G) ==
    /\ Commit("up", n, Some(e), G, HistUp(G.H, G, e))
    /\ dom' = [G.D EXCEPT !.capture[e.pointerId] = NoNode]

\* the handler, then the browser's release of the pointer's capture
PointerUp(e) ==
    /\ e.pointerId \in down
    /\ QueuesShort
    /\ DoneUp(ActiveNode, e, OnUp(World(instances, active_node, dom, hist), ActiveNode, e))
    /\ down' = down \ {e.pointerId}

\* the update() of a handle of createDraggable: update(instance)
Update(n) ==
    /\ engine = "create"
    /\ n \in DOMAIN instances
    /\ QueuesShort
    /\ DoneMove("update", n, NULL,
                update(World(instances, active_node, dom, hist), n, << >>))
    /\ UNCHANGED down

\* history: the list the last update() of n's handle was called with, and
\* whether n was in an interaction then
HistAsked(H, n, plugins) ==
    [H EXCEPT !.asked[n] = [list |-> plugins,
                            during |-> \/ instances[n].ctx.isInteracting
                                       \/ instances[n].ctx.isDragging]]

\* handle.update(plugins) with one of the lists: the handle's update is
\* () => update(instance), which drops the argument
UpdateWith(n, i) ==
    /\ engine = "create"
    /\ n \in DOMAIN instances
    /\ QueuesShort
    /\ DoneMove("update", n, NULL,
                update(World(instances, active_node, dom, HistAsked(hist, n, cfg.lists[i])),
                       n, << >>))
    /\ UNCHANGED down

\* destroy() of the engine
OnDestroy(G, n) == IF engine = "create" THEN cd_destroy(G, n) ELSE si_destroy(G, n)

\* history: n's handle was destroyed, during an interaction ("busy") or
\* outside one ("idle")
DoneDestroy(n, G) ==
    /\ Commit("destroy", n, NULL, G,
              [G.H EXCEPT !.gone[n] = IF \/ instances[n].ctx.isInteracting
                                         \/ instances[n].ctx.isDragging
                                      THEN "busy" ELSE "idle"])
    /\ dom' = G.D

\* the destroy() of a handle, of either engine
Destroy(n) ==
    /\ n \in DOMAIN instances
    /\ DoneDestroy(n, OnDestroy(World(instances, active_node, dom, hist), n))
    /\ UNCHANGED down

Lates == IF cfg.threshold.delay = 0 THEN {TRUE} ELSE BOOLEAN

\* createDraggable under pointer events
NextCreate ==
    \/ \E n \in Nodes, i \in 1..Len(cfg.lists) : Attach(n, i)
    \/ \E e \in Events : PointerDown(e)
    \/ \E e \in MoveEvents, late \in Lates : PointerMove(e, late)
    \/ \E e \in MoveEvents : PointerUp(e)

\* either engine under pointer events
NextBoth ==
    \/ NextCreate
    \/ \E n \in Nodes, i \in 1..Len(cfg.lists) : SingleAttach(n, i)

\* createDraggable with the handles' update() and destroy()
NextLife ==
    \/ NextCreate
    \/ \E n \in Nodes : Update(n)
    \/ \E n \in Nodes : Destroy(n)

\* createDraggable with update(plugins) called on the handles
NextUpdate ==
    \/ NextCreate
    \/ \E n \in Nodes, i \in 1..Len(cfg.lists) : UpdateWith(n, i)

-----------------------------------------------------------------------------
(* Specifications *)

\* threshold = { delay: 0, distance: 3 }
DefaultDelay == 0
DefaultDistance == 3
DefaultThreshold == [delay |-> DefaultDelay, distance |-> DefaultDistance]

\* the default plugins alone, one node, one pointer
DefaultConfig ==
    [scn |-> "default", engines |-> {"create", "single"},
     initial_plugins |-> default_plugins, lists |-> << << >> >>,
     nodes |-> {"n1"}, pointers |-> {1}, buttons |-> {0},
     xs |-> 0..MaxCoord, ys |-> {0}, alts |-> {FALSE}, reach |-> MaxOffset,
     nocapture |-> {}, selects |-> {""}, options |-> {},
     threshold |-> DefaultThreshold, track |-> {"at", "cyc"}]

InitDefault == InitWith(DefaultConfig)
SpecDefault == InitDefault /\ [][NextBoth]_vars


\* the default plugins alone, one node, two pointers that rest or travel
\* the default distance
TouchConfig ==
    [DefaultConfig EXCEPT !.scn = "touch", !.pointers = {1, 2},
                          !.xs = {0, DefaultDistance}, !.reach = 0,
                          !.track = {"at", "cyc", "pressed"}]

InitTouch == InitWith(TouchConfig)
SpecTouch == InitTouch /\ [][NextBoth]_vars
-----------------------------------------------------------------------------
(* Offsets, rendering and multi-touch under the default plugins *)

\* the instance of the node the last handler was for
Inst == instances[obs.node]

\* the last handler was a pointer-move of an attached node
Moved == obs.kind = "move" /\ obs.node \in DOMAIN instances

\* C2: in a press-release cycle with a single pointer-down at p0, once
\* dragging has started, the offset after each pointer-move to p is the
\* offset from before the pointer-down plus (p - p0)
C2_OffsetFollowsPointer ==
    (/\ Moved
     /\ hist.cyc.open /\ hist.cyc.single /\ hist.cyc.started
     /\ hist.cyc.node = obs.node)
        => /\ Inst.ctx.offset.x = obs.at.x - hist.cyc.base.x
           /\ Inst.ctx.offset.y = obs.at.y - hist.cyc.base.y

\* C3: after a pointer-move that committed an offset, the node's translate
\* style is that committed offset
C3_TranslateIsOffset ==
    (Moved /\ obs.committed)
        => dom.translate[obs.node] = Some(<<Inst.ctx.offset.x, Inst.ctx.offset.y>>)

\* C8: after a second pointer went down on a node being dragged, a move of
\* that pointer finds the node idle and commits no offset
C8_SecondPointerCancels ==
    (Moved /\ hist.multi[obs.node] # NoPointer /\ obs.pid = hist.multi[obs.node])
        => /\ ~Inst.ctx.isInteracting
           /\ ~Inst.ctx.isDragging
           /\ ~obs.committed
-----------------------------------------------------------------------------
(* Vetoes of shouldDrag *)

\* a user plugin whose shouldDrag returns false for events with altKey
vetoer == probe("vetoer", {"shouldDrag"}, FALSE, "false", {"shouldDrag"}, FALSE)

\* one node with disabled, axis('none') or vetoer, two pointers
VetoConfig ==
    [TouchConfig EXCEPT !.scn = "veto", !.alts = BOOLEAN,
                        !.lists = << <<disabled>>, <<axis("none")>>, <<vetoer>> >>,
                        !.track = {"last"}]

InitVeto == InitWith(VetoConfig)
SpecVeto == InitVeto /\ [][NextBoth]_vars

\* C1 as stated: while the last pointer-down of an instance was vetoed by
\* its shouldDrag chain, none of its dragStart or drag hooks has been
\* invoked since, and it is neither interacting nor dragging
C1_VetoKeepsIdle ==
    \A n \in DOMAIN instances :
        hist.last[n].vetoed =>
            /\ ~hist.last[n].hooks
            /\ ~instances[n].ctx.isInteracting
            /\ ~instances[n].ctx.isDragging

\* C1, for a pointer-down that found the instance idle: while the last
\* pointer-down of an instance was vetoed by its shouldDrag chain and found
\* it idle, none of its dragStart or drag hooks has been invoked since,
\* and it is neither interacting nor dragging
C1_VetoWhenIdleKeepsIdle ==
    \A n \in DOMAIN instances :
        (hist.last[n].vetoed /\ hist.last[n].idle) =>
            /\ ~hist.last[n].hooks
            /\ ~instances[n].ctx.isInteracting
            /\ ~instances[n].ctx.isDragging

\* a pointer-move arrives after a vetoed pointer-down on an idle instance
C1_Witness ==
    /\ obs.kind = "move"
    /\ obs.node \in DOMAIN instances
    /\ hist.last[obs.node].vetoed
    /\ hist.last[obs.node].idle
-----------------------------------------------------------------------------
(* The dragging status of the nodes of one factory *)

\* createDraggable with the default plugins, two nodes, two pointers
PairConfig ==
    [TouchConfig EXCEPT !.scn = "pair", !.engines = {"create"},
                        !.nodes = {"n1", "n2"}, !.xs = {0}, !.track = {}]

InitPair == InitWith(PairConfig)
SpecPair == InitPair /\ [][NextCreate]_vars

\* C4: a node's isDragging turns true only in a pointer-move of that node
\* whose dragStart chain passed, and it is false whenever no pointer is
\* down: before the pointer-down of a cycle and after its pointer-up
C4_DraggingStatus ==
    /\ obs.rose # {} => obs.kind = "move" /\ obs.started /\ obs.rose = {obs.node}
    /\ down = {} => \A n \in DOMAIN instances : ~instances[n].ctx.isDragging
-----------------------------------------------------------------------------
(* The axis plugin among grid, bounds and transform *)

GridStep == <<2, 2>>
AxisBound == <<<<1, 1>>, <<4, 4>>>>

\* how a plugin joins a list: not at all, before axis or after it
Hows == <<"none", "hi", "lo">>

Joined(p, how) ==
    IF how = "none" THEN << >>
    ELSE <<WithPriority(p, IF how = "hi" THEN 1 ELSE 0 - 1)>>

\* axis(value) with grid and bounds in each of these ways (transform is
\* among the default plugins)
AxisLists(value) ==
    [i \in 1..9 |->
        <<axis(value)>> \o Joined(grid(GridStep[1], GridStep[2]), Hows[((i - 1) \div 3) + 1])
                       \o Joined(bounds(AxisBound), Hows[((i - 1) % 3) + 1])]

\* one node, one pointer that rests or travels the default distance on
\* each axis
AxisConfig ==
    [DefaultConfig EXCEPT !.scn = "axis", !.xs = {0, DefaultDistance},
                          !.ys = {0, DefaultDistance}, !.reach = 0,
                          !.lists = AxisLists("x") \o AxisLists("y")]

InitAxis == InitWith(AxisConfig)
SpecAxis == InitAxis /\ [][NextBoth]_vars

\* the value of the axis plugin of an instance
AxisOf(I) ==
    LET at == {i \in 1..Len(I.plugins) : I.plugins[i].kind = "axis"}
    IN  IF at = {} THEN "both" ELSE I.plugins[CHOOSE i \in at : TRUE].arg

HasPlugin(I, kind) == \E i \in 1..Len(I.plugins) : I.plugins[i].kind = kind

-----------------------------------------------------------------------------
(* The grid plugin *)

\* grid(2, 3) or grid(0, 2); one node, one pointer, each press at the
\* offset (0, 0)
GridConfig ==
    [DefaultConfig EXCEPT !.scn = "grid", !.xs = {0, 1, MaxCoord}, !.ys = {0, 1},
                          !.reach = 0,
                          !.lists = << <<grid(2, 3)>>, <<grid(0, 2)>> >>]

InitGrid == InitWith(GridConfig)
SpecGrid == InitGrid /\ [][NextBoth]_vars

\* the steps of the grid plugin of an instance
GridOf(I) == I.plugins[CHOOSE i \in 1..Len(I.plugins) : I.plugins[i].kind = "grid"].arg

\* m is the least multiple of step that is not below val
RoundedUp(m, val, step) == m % step = 0 /\ m >= val /\ m - step < val

-----------------------------------------------------------------------------
(* The bounds plugin *)

Bound == <<<<0, 0>>, <<3, 1>>>>

\* the node at (1, 0) with bounds(() => Bound), one pointer along x
BoundsConfig ==
    [DefaultConfig EXCEPT !.scn = "bounds", !.nodes = {"n2"},
                          !.lists = << <<bounds(Bound)>> >>]

InitBounds == InitWith(BoundsConfig)
SpecBounds == InitBounds /\ [][NextBoth]_vars

\* the rectangle lies within the bound rectangle, edges included
Within(rect, b) ==
    /\ b[1][1] <= rect.x /\ rect.x + rect.width <= b[2][1]
    /\ b[1][2] <= rect.y /\ rect.y + rect.height <= b[2][2]

\* C7: after a committed move of a node that was within the bound rectangle
\* at pointer-down, the node at its origin plus the offset, with its cached
\* width and height, is within the bound rectangle
C7_StaysWithinBounds ==
    (/\ Moved /\ obs.committed
     /\ Within(Inst.ctx.cachedRootNodeRect, Bound))
        => Within([x |-> NodeOrigin(obs.node).x + Inst.ctx.offset.x,
                   y |-> NodeOrigin(obs.node).y + Inst.ctx.offset.y,
                   width |-> Inst.ctx.cachedRootNodeRect.width,
                   height |-> Inst.ctx.cachedRootNodeRect.height], Bound)

-----------------------------------------------------------------------------
(* The effect queue of createDraggable *)

\* user plugins: queuer queues a closure in every drag and dragEnd hook;
\* for events with altKey, canceller calls ctx.cancel() in drag and ender
\* returns false from dragEnd; faulty queues a closure that throws
queuer == WithPriority(probe("queuer", {"drag", "dragEnd"}, TRUE, "ok", {}, FALSE), 2)
canceller == WithPriority(probe("canceller", {"drag"}, FALSE, "cancel", {"drag"}, FALSE), 1)
ender == WithPriority(probe("ender", {"dragEnd"}, FALSE, "false", {"dragEnd"}, FALSE), 1)
faulty == WithPriority(probe("faulty", {"drag"}, TRUE, "ok", {}, TRUE), 1)

\* createDraggable, one node, one pointer, with update() and destroy()
EffectsConfig ==
    [DefaultConfig EXCEPT !.scn = "effects", !.engines = {"create"},
                          !.xs = {0, DefaultDistance}, !.reach = DefaultDistance,
                          !.alts = BOOLEAN, !.track = {},
                          !.lists = << <<queuer, canceller>>, <<queuer, ender>>,
                                       <<queuer, faulty>> >>]

InitEffects == InitWith(EffectsConfig)
SpecEffects == InitEffects /\ [][NextLife]_vars

\* C9: no closure has run that was queued in a phase in which a hook
\* returned false, threw or called ctx.cancel()
C9_NoEffectOfVetoedPhase == ~hist.ranTainted

\* C10: no queued closure has run more than once
C10_EffectsRunOnce == ~hist.ranTwice

-----------------------------------------------------------------------------
(* The commit of handle_pointer_move *)

\* user plugins whose drag hook, for events with altKey, returns false or
\* throws
dragVeto == WithPriority(probe("dragVeto", {"drag"}, FALSE, "false", {"drag"}, FALSE), 0 - 1)
dragThrow == WithPriority(probe("dragThrow", {"drag"}, FALSE, "throw", {"drag"}, FALSE), 0 - 1)

\* a user plugin whose drag hook queues a closure that throws when the
\* event had altKey
fickle == probe("fickle", {"drag"}, TRUE, "ok", {"drag"}, TRUE)

\* createDraggable with grid(2, 2) and dragVeto, axis('y') and dragThrow, or
\* fickle; one node, one pointer
CommitConfig ==
    [DefaultConfig EXCEPT !.scn = "commit", !.engines = {"create"},
                          !.xs = {0, 1, MaxCoord}, !.ys = {0}, !.alts = BOOLEAN,
                          !.reach = 0, !.track = {"calls"},
                          !.lists = << <<grid(2, 2), dragVeto>>,
                                       <<axis("y"), dragThrow>>,
                                       <<fickle>> >>]

InitCommit == InitWith(CommitConfig)
SpecCommit == InitCommit /\ [][NextCreate]_vars

\* a drag hook of n returned false or threw in the handler with these calls
DragFailed(calls, n) ==
    \E i \in 1..Len(calls) :
        /\ calls[i].node = n
        /\ calls[i].hook = "drag"
        /\ calls[i].out \in {"false", "throw"}

\* a pointer-move is handled for n, which was dragging
MoveWhileDragging(n) ==
    /\ engine = "create"
    /\ obs'.kind = "move" /\ obs'.node = n
    /\ n \in DOMAIN instances \cap DOMAIN instances'
    /\ instances[n].ctx.isInteracting /\ instances[n].ctx.isDragging

\* the offset of n grows by the proposal the chain left
Committed(n) ==
    /\ instances'[n].ctx.offset.x =
          instances[n].ctx.offset.x + OrZero(instances'[n].ctx.proposed.x)
    /\ instances'[n].ctx.offset.y =
          instances[n].ctx.offset.y + OrZero(instances'[n].ctx.proposed.y)

\* C11 as stated: a pointer-move handled while dragging leaves the offset
\* unchanged when a drag hook returned false or threw, and otherwise adds
\* the final proposal to it (null counted as 0)
C11_CommitIffNotVetoed ==
    [][\A n \in Nodes :
          MoveWhileDragging(n) =>
              IF DragFailed(obs'.calls, n)
              THEN instances'[n].ctx.offset = instances[n].ctx.offset
              ELSE Committed(n)]_vars

\* what handle_pointer_move does: the offset is also left unchanged when an
\* exception of a queued closure leaves flush_effects, which runs before the
\* commit; apart from that the move commits as C11 states
C11_CommitIffNotVetoedNorThrown ==
    [][\A n \in Nodes :
          MoveWhileDragging(n) =>
              IF DragFailed(obs'.calls, n) \/ obs'.uncaught
              THEN instances'[n].ctx.offset = instances[n].ctx.offset
              ELSE Committed(n)]_vars

\* a move while dragging has committed a proposal that grid(2, 2) or
\* axis('y') changed from the raw delta
C11_Witness ==
    /\ engine = "create" /\ Moved /\ obs.committed
    /\ ~DragFailed(obs.calls, obs.node)
    /\ \E i \in 1..Len(obs.calls) : obs.calls[i].name \in {"dragVeto", "dragThrow"}
    /\ Inst.ctx.proposed # [x |-> Some(Inst.ctx.delta.x), y |-> Some(Inst.ctx.delta.y)]
    /\ Inst.ctx.offset # [x |-> 0, y |-> 0]

-----------------------------------------------------------------------------
(* ctx.cancel() *)

\* a user plugin whose dragStart, drag and dragEnd hooks call ctx.cancel()
\* for events with altKey; it has the priority 0 of the built-in plugins
quitter ==
    probe("quitter", {"dragStart", "drag", "dragEnd"}, FALSE, "cancel",
          {"dragStart", "drag", "dragEnd"}, FALSE)

\* either engine with quitter and the default plugins; one node, one pointer
CancelConfig ==
    [DefaultConfig EXCEPT !.scn = "cancel", !.xs = {0, DefaultDistance},
                          !.alts = BOOLEAN, !.reach = DefaultDistance,
                          !.track = {"calls"}, !.lists = << <<quitter>> >>]

InitCancel == InitWith(CancelConfig)
SpecCancel == InitCancel /\ [][NextBoth]_vars

DragPhases == {"dragStart", "drag", "dragEnd"}

\* the i-th call of the handler was a hook of n of a drag phase that called
\* ctx.cancel()
CancelAt(calls, n, i) ==
    /\ calls[i].node = n
    /\ calls[i].hook \in DragPhases
    /\ calls[i].cancel

Cancelled(calls, n) == \E i \in 1..Len(calls) : CancelAt(calls, n, i)

\* the plugin of n a call was made to
CalledPlugin(insts, n, c) ==
    insts[n].plugins[CHOOSE k \in 1..Len(insts[n].plugins) :
                         insts[n].plugins[k].uid = c.uid]

\* C12: when a hook of the dragStart, drag or dragEnd phase calls
\* ctx.cancel(), no cancelable hook of that phase is invoked after it, the
\* handler commits no offset, and the instance is neither interacting nor
\* dragging when the handler returns
C12_CancelEndsInteraction ==
    [][\A n \in Nodes :
          (n \in DOMAIN instances' /\ Cancelled(obs'.calls, n)) =>
              /\ \A i, j \in 1..Len(obs'.calls) :
                     (CancelAt(obs'.calls, n, i) /\ i < j
                        /\ obs'.calls[j].node = n
                        /\ obs'.calls[j].hook = obs'.calls[i].hook)
                     => ~CalledPlugin(instances', n, obs'.calls[j]).cancelable
              /\ ~obs'.committed
              /\ ~instances'[n].ctx.isInteracting
              /\ ~instances'[n].ctx.isDragging]_vars

-----------------------------------------------------------------------------
(* The dragEnd chain of handle_pointer_up *)

\* a pointer-up is handled for n, the active instance, which was interacting
UpWhileInteracting(n) ==
    /\ engine = "create"
    /\ obs'.kind = "up" /\ obs'.node = n
    /\ n \in DOMAIN instances \cap DOMAIN instances'
    /\ active_node = n
    /\ instances[n].ctx.isInteracting

\* a dragEnd hook of n returned false or threw in the handler with these calls
DragEndFailed(calls, n) ==
    \E i \in 1..Len(calls) :
        /\ calls[i].node = n
        /\ calls[i].hook = "dragEnd"
        /\ calls[i].out \in {"false", "throw"}

\* the calls of the handler to the dragEnd hook of plugin p of n
DragEndCalls(calls, n, p) ==
    {i \in 1..Len(calls) :
        calls[i].node = n /\ calls[i].hook = "dragEnd" /\ calls[i].uid = p.uid}

\* C13: a pointer-up handled while the active instance is interacting, in
\* which no dragEnd hook returns false or throws, invokes the dragEnd hook
\* of every plugin of the instance that defines one exactly once, and
\* leaves the instance neither interacting nor dragging
C13_DragEndAlwaysRuns ==
    [][\A n \in Nodes :
          (/\ UpWhileInteracting(n)
           /\ ~DragEndFailed(obs'.calls, n)
           /\ ~Cancelled(obs'.calls, n)) =>
              /\ \A k \in 1..Len(instances[n].plugins) :
                     Defines(instances[n].plugins[k], "dragEnd") =>
                        Cardinality(DragEndCalls(obs'.calls, n, instances[n].plugins[k])) = 1
              /\ ~instances'[n].ctx.isInteracting
              /\ ~instances'[n].ctx.isDragging]_vars

-----------------------------------------------------------------------------
(* The order of the hooks *)

AllHooks == {"setup", "shouldDrag", "dragStart", "drag", "dragEnd"}

\* user plugins that define every hook and do nothing in them
hi == WithPriority(probe("hi", AllHooks, FALSE, "ok", {}, FALSE), 2)
mid == probe("mid", AllHooks, FALSE, "ok", {}, FALSE)
lo == WithPriority(probe("lo", AllHooks, FALSE, "ok", {}, FALSE), 0 - 1)
\* a second object named "mid", and a user plugin with the name of a
\* built-in one
mid2 == WithUid(mid, "mid#2")
ownClasses == WithUid([classes EXCEPT !.priority = 1], "classes#2")
plainClasses == WithUid(classes, "classes#3")

\* either engine with user plugins of priorities 2, 0 and -1 in several
\* orders, with and without a second object of the same name; one node,
\* one pointer
OrderConfig ==
    [DefaultConfig EXCEPT !.scn = "order",
                          !.xs = {0, DefaultDistance}, !.reach = DefaultDistance,
                          !.track = {"calls", "given"},
                          !.lists = << <<lo, mid, hi>>,
                                       <<mid, lo, mid2, ownClasses>>,
                                       <<hi, plainClasses, mid>> >>]

InitOrder == InitWith(OrderConfig)
SpecOrder == InitOrder /\ [][NextBoth]_vars

\* the list of per-node plugins followed by the factory plugins
Registration(n) == hist.given[n] \o cfg.initial_plugins

\* the first occurrence of a plugin name in it
FirstOccurrence(n, name) ==
    CHOOSE i \in 1..Len(Registration(n)) :
        /\ Registration(n)[i].name = name
        /\ \A j \in 1..(i - 1) : Registration(n)[j].name # name

\* the plugin of call a is to run before the plugin of call b of node n
RunsBefore(n, a, b) ==
    \/ CalledPlugin(instances, n, a).priority > CalledPlugin(instances, n, b).priority
    \/ /\ CalledPlugin(instances, n, a).priority = CalledPlugin(instances, n, b).priority
       /\ FirstOccurrence(n, a.name) < FirstOccurrence(n, b.name)

\* C14: in createDraggable two hooks of a phase that follow one another are
\* invoked in descending priority order, and those of plugins of equal
\* priority in the order of the first occurrence of their names in the list
\* of per-node plugins followed by the factory plugins
C14_DescendingPriority ==
    engine = "create" =>
        \A i \in 1..(Len(obs.calls) - 1) :
            (/\ obs.calls[i].node \in DOMAIN instances
             /\ obs.calls[i + 1].node = obs.calls[i].node
             /\ obs.calls[i + 1].hook = obs.calls[i].hook)
            => RunsBefore(obs.calls[i].node, obs.calls[i], obs.calls[i + 1])

\* a drag chain has run the hooks of hi, of the built-in plugins and of lo
\* for a list that names lo first and a second object named "mid" after it
C14_Witness ==
    /\ engine = "create" /\ obs.kind = "move"
    /\ \E i, j, k \in 1..Len(obs.calls) :
          /\ i < j /\ j < k
          /\ obs.calls[i].uid = "mid#2" /\ obs.calls[i].hook = "drag"
          /\ obs.calls[j].name = "neodrag:transform" /\ obs.calls[j].hook = "drag"
          /\ obs.calls[k].name = "lo" /\ obs.calls[k].hook = "drag"

\* the plugin objects draggable(node, options) was given for node n: the
\* default plugins and options.plugins
GivenPlugin(n, c) ==
    (default_plugins \o hist.given[n])[
        CHOOSE k \in 1..Len(default_plugins \o hist.given[n]) :
            (default_plugins \o hist.given[n])[k].uid = c.uid]

\* the place of the plugin object of call c in options.plugins, 0 if it is
\* not there
ArrayIndex(n, c) ==
    IF \E k \in 1..Len(hist.given[n]) : hist.given[n][k].uid = c.uid
    THEN CHOOSE k \in 1..Len(hist.given[n]) : hist.given[n][k].uid = c.uid
    ELSE 0

\* C15: in draggable(node, options) two hooks of a chain of run_plugins that
\* follow one another are those of a plugin of higher priority and then of
\* one of lower priority, or of plugins of equal priority, which, when both
\* are in the plugins array, run in the order of the array
C15_HigherRunsEarlier ==
    engine = "single" =>
        \A i \in 1..(Len(obs.calls) - 1) :
            (/\ obs.calls[i].node \in DOMAIN instances
             /\ obs.calls[i + 1].node = obs.calls[i].node
             /\ obs.calls[i + 1].hook = obs.calls[i].hook
             /\ obs.calls[i].hook \in {"shouldDrag", "dragStart", "drag", "dragEnd"})
            => /\ GivenPlugin(obs.calls[i].node, obs.calls[i]).priority >=
                    GivenPlugin(obs.calls[i].node, obs.calls[i + 1]).priority
               /\ (/\ GivenPlugin(obs.calls[i].node, obs.calls[i]).priority =
                         GivenPlugin(obs.calls[i].node, obs.calls[i + 1]).priority
                   /\ ArrayIndex(obs.calls[i].node, obs.calls[i]) > 0
                   /\ ArrayIndex(obs.calls[i].node, obs.calls[i + 1]) > 0)
                  => ArrayIndex(obs.calls[i].node, obs.calls[i]) <
                        ArrayIndex(obs.calls[i].node, obs.calls[i + 1])

-----------------------------------------------------------------------------
(* Plugins of the same name *)

\* two user plugins named "p", of priority 1 and 2
p1 == WithUid(WithPriority(probe("p", AllHooks, FALSE, "ok", {}, FALSE), 1), "p#1")
p2 == WithUid(WithPriority(probe("p", AllHooks, FALSE, "ok", {}, FALSE), 2), "p#2")

\* either engine with both of them, in either order; one node, one pointer
DuplicateConfig ==
    [DefaultConfig EXCEPT !.scn = "duplicate",
                          !.xs = {0, DefaultDistance}, !.reach = DefaultDistance,
                          !.track = {"calls", "given"},
                          !.lists = << <<p1, p2>>, <<p2, p1>> >>]

InitDuplicate == InitWith(DuplicateConfig)
SpecDuplicate == InitDuplicate /\ [][NextBoth]_vars

\* the list n was attached with holds the plugin object of call c and
\* another object of the same name and a higher priority
Shadowed(n, c) ==
    \E j, k \in 1..Len(hist.given[n]) :
        /\ hist.given[n][j].uid = c.uid
        /\ hist.given[n][k].name = hist.given[n][j].name
        /\ hist.given[n][k].priority > hist.given[n][j].priority

\* C16: no handler invokes setup or another hook of a plugin object of the
\* attach list that has a same-named object of higher priority beside it
C16_OnlyHighestPriorityRuns ==
    \A i \in 1..Len(obs.calls) :
        obs.calls[i].node \in DOMAIN instances => ~Shadowed(obs.calls[i].node, obs.calls[i])

-----------------------------------------------------------------------------
(* update *)

LifeHooks == {"setup", "cleanup", "drag"}

\* a factory plugin with liveUpdate: true, and a user plugin of the same
\* name, also with liveUpdate: true, that takes its place at attach
live == [probe("live", LifeHooks, FALSE, "ok", {}, FALSE) EXCEPT !.liveUpdate = TRUE]
live2 == WithUid(WithPriority(live, 1), "live#2")
\* user plugins without liveUpdate
steady == probe("steady", LifeHooks, FALSE, "ok", {}, FALSE)
other == probe("other", LifeHooks, FALSE, "ok", {}, FALSE)

\* createDraggable({plugins: [...default plugins, live]}); nodes attached
\* with no plugin, with steady or with live2, and their handles' update
\* called with these lists and with [other]; one node, one pointer
UpdateConfig ==
    [DefaultConfig EXCEPT !.scn = "update", !.engines = {"create"},
                          !.initial_plugins = default_plugins \o <<live>>,
                          !.xs = {0, 1}, !.reach = MaxOffset,
                          !.track = {"calls", "given", "asked"},
                          !.lists = << << >>, <<steady>>, <<live2>>, <<other>> >>]

InitUpdate == InitWith(UpdateConfig)
SpecUpdate == InitUpdate /\ [][NextUpdate]_vars

Idle(n) == ~instances[n].ctx.isInteracting /\ ~instances[n].ctx.isDragging

\* update() of the handle of n is handled
Updated(n) ==
    /\ engine = "create"
    /\ obs'.kind = "update" /\ obs'.node = n
    /\ n \in DOMAIN instances \cap DOMAIN instances'

\* the list it was called with
Asked(n) == hist'.asked[n].list

\* the handler invoked the hook of the plugin object uid of n
HookCalled(calls, n, hook, uid) ==
    \E i \in 1..Len(calls) :
        calls[i].node = n /\ calls[i].hook = hook /\ calls[i].uid = uid

\* C17: update on an idle instance with a list that gives the plugin objects
\* the instance has invokes no setup and no cleanup, and leaves the plugin
\* list, the private states and the context as they were
C17_UpdateIdempotent ==
    [][\A n \in Nodes :
          (/\ Updated(n) /\ Idle(n)
           /\ initialize_plugins(Asked(n)) = instances[n].plugins) =>
              /\ \A i \in 1..Len(obs'.calls) :
                     obs'.calls[i].hook \notin {"setup", "cleanup"}
              /\ instances'[n].plugins = instances[n].plugins
              /\ instances'[n].states = instances[n].states
              /\ instances'[n].ctx = instances[n].ctx]_vars

\* the plugin object named name in list, NULL if there is none
Named(list, name) ==
    IF \E i \in 1..Len(list) : list[i].name = name
    THEN Some(list[CHOOSE i \in 1..Len(list) : list[i].name = name])
    ELSE NULL

\* C18: update(P) on the handle of an idle instance leaves as the plugin
\* list the deduplicated, priority-ordered merge of P with the factory
\* plugins; a plugin of the old list whose name is not in it gets cleanup
\* and loses its private state, one replaced by another object of its name
\* gets cleanup and the new object setup, and an object that is in both
\* lists gets neither
C18_UpdateReconcilesGivenList ==
    [][\A n \in Nodes :
          (Updated(n) /\ Idle(n) /\ ~obs'.uncaught) =>
              /\ instances'[n].plugins = initialize_plugins(Asked(n))
              /\ \A k \in 1..Len(instances[n].plugins) :
                    LET old == instances[n].plugins[k]
                        new == Named(initialize_plugins(Asked(n)), old.name)
                    IN  /\ new = NULL =>
                              /\ HookCalled(obs'.calls, n, "cleanup", old.uid)
                              /\ old.name \notin DOMAIN instances'[n].states
                        /\ (new # NULL /\ ~SameObject(new[1], old)) =>
                              /\ HookCalled(obs'.calls, n, "cleanup", old.uid)
                              /\ HookCalled(obs'.calls, n, "setup", new[1].uid)
                        /\ (new # NULL /\ SameObject(new[1], old)) =>
                              /\ ~HookCalled(obs'.calls, n, "cleanup", old.uid)
                              /\ ~HookCalled(obs'.calls, n, "setup", old.uid)]_vars

\* the handler cleaned up the plugin object old of n and set up another
\* object of the same name, new
Replaced(calls, n, old, new) ==
    /\ old.name = new.name /\ ~SameObject(old, new)
    /\ HookCalled(calls, n, "cleanup", old.uid)
    /\ HookCalled(calls, n, "setup", new.uid)

\* C19: when update during an interaction replaces a liveUpdate plugin by
\* another object of the same name, the drag hooks it invokes under that
\* name in the replay of the last pointer-move are those of the new object,
\* and the plugin list of the instance, which every later chain runs, holds
\* the new object and not the replaced one
C19_ReplacedPluginNeverRuns ==
    [][\A n \in Nodes :
          (Updated(n) /\ ~Idle(n)) =>
              \A k \in 1..Len(instances[n].plugins),
                 m \in 1..Len(cfg.initial_plugins \o Asked(n)) :
                 LET old == instances[n].plugins[k]
                     new == (cfg.initial_plugins \o Asked(n))[m]
                 IN  (new.liveUpdate /\ Replaced(obs'.calls, n, old, new)) =>
                        /\ ~HookCalled(obs'.calls, n, "drag", old.uid)
                        /\ (active_node = n /\ instances[n].ctx.lastEvent # NULL) =>
                              HookCalled(obs'.calls, n, "drag", new.uid)
                        /\ Named(instances'[n].plugins, new.name) = Some(new)]_vars

\* the plugin objects of list without liveUpdate
NonLive(list) == {list[i] : i \in {j \in 1..Len(list) : ~list[j].liveUpdate}}

\* the part of C20 that holds: an update during an interaction invokes
\* neither setup nor cleanup of a plugin without liveUpdate
NoHookOfNonLive ==
    [][\A n \in Nodes :
          (Updated(n) /\ ~Idle(n)) =>
              \A i \in 1..Len(obs'.calls) :
                 obs'.calls[i].hook \in {"setup", "cleanup"} =>
                    \A q \in NonLive(instances[n].plugins)
                               \cup NonLive(initialize_plugins(Asked(n))) :
                       obs'.calls[i].uid # q.uid]_vars

\* C20: once an instance whose handle's update was last called during an
\* interaction is idle again, the change is reconciled: its plugins without
\* liveUpdate are those of the merge of the list of that update with the
\* factory plugins
C20_DeferredReconcile ==
    \A n \in DOMAIN instances :
        (engine = "create" /\ hist.asked[n].during /\ Idle(n)) =>
            NonLive(instances[n].plugins) =
               NonLive(initialize_plugins(hist.asked[n].list))

-----------------------------------------------------------------------------
(* destroy *)

\* createDraggable with the default plugins, two nodes attached with the
\* user plugin steady, one pointer, and the handles' update() and destroy()
DestroyConfig ==
    [DefaultConfig EXCEPT !.scn = "destroy", !.engines = {"create"},
                          !.nodes = {"n1", "n2"}, !.xs = {0}, !.reach = 0,
                          !.track = {"calls", "gone"},
                          !.lists = << <<steady>> >>]

InitDestroy == InitWith(DestroyConfig)
SpecDestroy == InitDestroy /\ [][NextLife]_vars

\* the calls of the handler to the cleanup of plugin p of n
CleanupCalls(calls, n, p) ==
    {i \in 1..Len(calls) :
        calls[i].node = n /\ calls[i].hook = "cleanup" /\ calls[i].uid = p.uid}

\* C21: destroy() of a handle of createDraggable invokes the cleanup of
\* every plugin of the instance's list that defines one and removes the
\* node from the registry, and no pointer-down, pointer-move or pointer-up
\* handled while the node is destroyed invokes a hook for it
C21_DestroyEndsHooks ==
    [][/\ (engine = "create" /\ obs'.kind = "destroy") =>
              /\ obs'.node \notin DOMAIN instances'
              /\ \A k \in 1..Len(instances[obs'.node].plugins) :
                     Defines(instances[obs'.node].plugins[k], "cleanup") =>
                        Cardinality(CleanupCalls(obs'.calls, obs'.node,
                                                 instances[obs'.node].plugins[k])) = 1
       /\ (engine = "create" /\ obs'.kind \in {"down", "move", "up"}) =>
              \A i \in 1..Len(obs'.calls) : hist'.gone[obs'.calls[i].node] = ""]_vars

\* after the handle of n1 was destroyed in the middle of an interaction, a
\* pointer-move of an interaction with the other node runs that node's hooks
C21_Witness ==
    /\ engine = "create"
    /\ hist.gone["n1"] = "busy"
    /\ obs.kind = "move" /\ obs.node = "n2"
    /\ obs.calls # << >>

-----------------------------------------------------------------------------
(* Hooks that throw *)

RunHooks == {"shouldDrag", "dragStart", "drag", "dragEnd"}

\* a user plugin whose hooks throw for events with altKey, and a factory
\* plugin with liveUpdate: true whose setup throws
thrower == probe("thrower", RunHooks, FALSE, "throw", RunHooks, FALSE)
brittle ==
    [probe("brittle", {"setup", "drag"}, FALSE, "throw", {"setup"}, FALSE)
        EXCEPT !.liveUpdate = TRUE]

\* createDraggable({plugins: [...default plugins, brittle]}), a node
\* attached with thrower, and its handle's update; one pointer
ErrorsConfig ==
    [DefaultConfig EXCEPT !.scn = "errors", !.engines = {"create"},
                          !.initial_plugins = default_plugins \o <<brittle>>,
                          !.xs = {0, 1}, !.alts = BOOLEAN, !.reach = MaxOffset,
                          !.track = {"calls"},
                          !.lists = << <<thrower>> >>]

InitErrors == InitWith(ErrorsConfig)
SpecErrors == InitErrors /\ [][NextUpdate]_vars

\* the calls of the last handler that threw
Throws == SelectSeq(obs.calls, LAMBDA c : c.out = "throw")

\* the place of the plugin object of call c in the plugin list of its node
PluginIndex(c) ==
    CHOOSE k \in 1..Len(instances[c.node].plugins) :
        instances[c.node].plugins[k].uid = c.uid

\* C22: in createDraggable no exception of a hook leaves the handler that
\* invoked it; every hook that threw is reported to onError once, with its
\* phase, its plugin's name and the node; and after a shouldDrag, dragStart,
\* drag or dragEnd hook threw, the chain invokes no hook of a later plugin
C22_HookErrorsContained ==
    (engine = "create" /\ Len(Throws) > 0) =>
        /\ ~obs.uncaught
        /\ Len(obs.errs) = Len(Throws)
        /\ \A k \in 1..Len(Throws) :
              obs.errs[k] = [phase |-> Throws[k].hook, plugin |-> Throws[k].name,
                             node |-> Throws[k].node]
        /\ \A i \in 1..(Len(obs.calls) - 1) :
              (/\ obs.calls[i].out = "throw"
               /\ obs.calls[i].hook \in RunHooks
               /\ obs.calls[i + 1].hook = obs.calls[i].hook
               /\ obs.calls[i + 1].node = obs.calls[i].node
               /\ obs.calls[i].node \in DOMAIN instances)
              => PluginIndex(obs.calls[i + 1]) <= PluginIndex(obs.calls[i])

\* a drag hook of n threw in the handler with these calls
DragThrew(calls, n) ==
    \E i \in 1..Len(calls) :
        calls[i].node = n /\ calls[i].hook = "drag" /\ calls[i].out = "throw"

\* C23: in createDraggable, when a drag hook throws in a pointer-move handled
\* while dragging, the instance is neither interacting nor dragging and its
\* effect queue is empty when the handler returns; and a pointer-move invokes
\* hooks only of an instance that is interacting
C23_DragErrorEndsInteraction ==
    [][/\ \A n \in Nodes :
              (MoveWhileDragging(n) /\ DragThrew(obs'.calls, n)) =>
                  /\ ~instances'[n].ctx.isInteracting
                  /\ ~instances'[n].ctx.isDragging
                  /\ instances'[n].effects = << >>
       /\ (engine = "create" /\ obs'.kind = "move") =>
              \A i \in 1..Len(obs'.calls) :
                  /\ obs'.calls[i].node \in DOMAIN instances
                  /\ instances[obs'.calls[i].node].ctx.isInteracting]_vars

\* a plugin whose setup throws whenever it is invoked
SetupThrows(p) == p.kind = "probe" /\ "setup" \in p.arg.on /\ p.arg.act = "throw"

\* the calls of hook of plugin object p of node n
CallsOf(calls, n, hook, p) ==
    {i \in 1..Len(calls) :
        calls[i].node = n /\ calls[i].hook = hook /\ calls[i].uid = p.uid}

\* C24: createDraggable's attach registers the instance and invokes the setup
\* of every plugin of its list once, also when the setup of one of them
\* throws; and no pointer event invokes a hook of a plugin whose setup threw
C24_FailedSetupNotActivated ==
    [][/\ (engine = "create" /\ obs'.kind = "attach") =>
              /\ obs'.node \in DOMAIN instances'
              /\ \A k \in 1..Len(instances'[obs'.node].plugins) :
                    Defines(instances'[obs'.node].plugins[k], "setup") =>
                        Cardinality(CallsOf(obs'.calls, obs'.node, "setup",
                                            instances'[obs'.node].plugins[k])) = 1
       /\ (engine = "create" /\ obs'.kind \in {"down", "move", "up"}) =>
              \A i \in 1..Len(obs'.calls) :
                  obs'.calls[i].node \in DOMAIN instances =>
                      ~SetupThrows(CalledPlugin(instances, obs'.calls[i].node,
                                                obs'.calls[i]))]_vars

\* the first half of C24 alone
C24_AttachRunsEverySetup ==
    [][(engine = "create" /\ obs'.kind = "attach") =>
          /\ obs'.node \in DOMAIN instances'
          /\ \A k \in 1..Len(instances'[obs'.node].plugins) :
                Defines(instances'[obs'.node].plugins[k], "setup") =>
                    Cardinality(CallsOf(obs'.calls, obs'.node, "setup",
                                        instances'[obs'.node].plugins[k])) = 1]_vars

-----------------------------------------------------------------------------
(* A pointer-down whose setPointerCapture throws *)

\* a user plugin whose shouldDrag queues an effect
gate == probe("gate", {"shouldDrag"}, TRUE, "ok", {}, FALSE)

\* one node attached with gate; setPointerCapture throws for pointer 2
CaptureConfig ==
    [DefaultConfig EXCEPT !.scn = "capture", !.engines = {"create"},
                          !.pointers = {1, 2}, !.nocapture = {2},
                          !.xs = {0, 1}, !.track = {"at", "calls"},
                          !.lists = << <<gate>> >>]

InitCapture == InitWith(CaptureConfig)
SpecCapture == InitCapture /\ [][NextCreate]_vars

\* the last handler was a pointer-down on a managed node that passed the
\* shouldDrag chain and whose setPointerCapture threw
CaptureFailed ==
    /\ engine = "create"
    /\ obs.kind = "down" /\ obs.node \in DOMAIN instances
    /\ ~obs.vetoed
    /\ \A i \in 1..Len(obs.calls) : obs.calls[i].out \notin {"false", "throw"}
    /\ setPointerCaptureThrows(obs.pid)

\* C25: when setPointerCapture throws on a pointer-down that passed
\* shouldDrag, onError is invoked once, with phase dragStart and the node,
\* and the handler returns with the instance not interacting, not dragging,
\* without captured pointer and with an empty effect queue, and with no
\* active node
C25_CaptureFailureResets ==
    CaptureFailed =>
        /\ obs.errs = << [phase |-> "dragStart", plugin |-> "", node |-> obs.node] >>
        /\ ~instances[obs.node].ctx.isInteracting
        /\ ~instances[obs.node].ctx.isDragging
        /\ instances[obs.node].pointer_captured_id = NoPointer
        /\ instances[obs.node].effects = << >>
        /\ active_node = NoNode

\* a capture failed on an instance that another pointer was dragging
C25_Witness ==
    /\ CaptureFailed
    /\ obs.calls # << >>
    /\ 1 \in down
    /\ instances[obs.node].ctx.offset.x # 0

-----------------------------------------------------------------------------
(* The interacting instance of a factory *)

\* the registered nodes whose instance is interacting
Interacting == {n \in DOMAIN instances : instances[n].ctx.isInteracting}

\* C26: in a createDraggable factory at most one registered instance is
\* interacting, and an interacting instance is the instance of active_node
C26_OneInteracting ==
    engine = "create" =>
        /\ Cardinality(Interacting) <= 1
        /\ \A n \in Interacting : active_node = n

-----------------------------------------------------------------------------
(* The user-select value of the document body *)

\* the default plugins, one node, one pointer that rests or travels the
\* default distance; document.body.style.userSelect starts as '' or 'text'
SelectConfig ==
    [DefaultConfig EXCEPT !.scn = "select", !.xs = {0, DefaultDistance},
                          !.reach = 0, !.selects = {"", "text"},
                          !.track = {"cyc", "sel"}]

InitSelect == InitWith(SelectConfig)
SpecSelect == InitSelect /\ [][NextBoth]_vars

\* C27: with the default plugins, after the pointer-up that ends a
\* press-release cycle on a managed node the user-select value of the
\* document body is the value it had before the pointer-down of the cycle
C27_UserSelectRestored ==
    [][(/\ obs'.kind = "up"
        /\ hist.cyc.open /\ hist.cyc.single /\ hist.cyc.node # NoNode
        /\ down' = {})
       => dom'.userSelect = hist.sel]_vars

\* the restoration in the cycles whose drag started
C27_RestoredAfterDrag ==
    [][(/\ obs'.kind = "up"
        /\ hist.cyc.open /\ hist.cyc.single /\ hist.cyc.node # NoNode
        /\ hist.cyc.started
        /\ down' = {})
       => dom'.userSelect = hist.sel]_vars

-----------------------------------------------------------------------------
(* The notifications of draggable(node, options) *)

\* the default plugins, one node, one pointer; the notifications are kept
NotifyConfig ==
    [DefaultConfig EXCEPT !.scn = "notify", !.track = {"calls", "begun"}]

InitNotify == InitWith(NotifyConfig)
SpecNotify == InitNotify /\ [][NextBoth]_vars

\* C28: every notification of draggable(node, options) carries the committed
\* offset of the node: neodrag the offset its pointer-move commits,
\* neodrag_start and neodrag_end the offset the node has when they are fired
C28_NotificationsCarryOffset ==
    [][(engine = "single" /\ obs'.node \in DOMAIN instances \cap DOMAIN instances') =>
          \A i \in 1..Len(obs'.fired) :
              /\ obs'.fired[i].name = "neodrag" =>
                    /\ obs'.fired[i].offsetX = instances'[obs'.node].ctx.offset.x
                    /\ obs'.fired[i].offsetY = instances'[obs'.node].ctx.offset.y
              /\ obs'.fired[i].name \in {"neodrag_start", "neodrag_end"} =>
                    /\ obs'.fired[i].offsetX = instances[obs'.node].ctx.offset.x
                    /\ obs'.fired[i].offsetY = instances[obs'.node].ctx.offset.y]_vars

\* the neodrag notifications alone
C28_DragCarriesOffset ==
    [][(engine = "single" /\ obs'.node \in DOMAIN instances \cap DOMAIN instances') =>
          \A i \in 1..Len(obs'.fired) :
              obs'.fired[i].name = "neodrag" =>
                  /\ obs'.fired[i].offsetX = instances'[obs'.node].ctx.offset.x
                  /\ obs'.fired[i].offsetY = instances'[obs'.node].ctx.offset.y]_vars

\* the drag-start and drag-end notifications fired from position i on
\* alternate, given whether the last one before them was a drag-start
RECURSIVE Alternate(_, _, _)
Alternate(begun, fired, i) ==
    IF i > Len(fired) THEN TRUE
    ELSE IF fired[i].name = "neodrag_start"
    THEN ~begun /\ Alternate(TRUE, fired, i + 1)
    ELSE IF fired[i].name = "neodrag_end"
    THEN begun /\ Alternate(FALSE, fired, i + 1)
    ELSE Alternate(begun, fired, i + 1)

\* C29: the drag-start and drag-end notifications of the node of
\* draggable(node, options) alternate, beginning with a drag-start: no
\* drag-end is fired unless the last of them was a drag-start, and no
\* drag-start is fired while the last of them was a drag-start
C29_StartEndAlternate ==
    [][(engine = "single" /\ obs'.node # NoNode) =>
          Alternate(hist.begun[obs'.node], obs'.fired, 1)]_vars

-----------------------------------------------------------------------------
(* The distance threshold of draggable(node, options) *)

\* the default plugins and the default threshold, one node, one pointer that
\* rests or travels the default distance, also from a node that was dragged
ThresholdConfig ==
    [DefaultConfig EXCEPT !.scn = "threshold", !.xs = {0, DefaultDistance},
                          !.reach = DefaultDistance,
                          !.track = {"calls", "near"}]

InitThreshold == InitWith(ThresholdConfig)
SpecThreshold == InitThreshold /\ [][NextBoth]_vars

\* C30: in draggable(node, options), a pointer-move of a press-release cycle
\* none of whose pointer-moves was threshold.distance or more away from the
\* position of the pointer-down invokes no dragStart hook and leaves the
\* node not dragging
C30_NoStartBelowDistance ==
    [][(/\ engine = "single"
        /\ obs'.kind = "move"
        /\ hist'.near.open /\ ~hist'.near.far
        /\ hist'.near.node = obs'.node
        /\ obs'.node \in DOMAIN instances')
       => /\ \A i \in 1..Len(obs'.calls) : obs'.calls[i].hook # "dragStart"
          /\ ~instances'[obs'.node].ctx.isDragging]_vars

\* the same in the cycles that begin with the node at offset (0, 0)
C30_NoStartBelowDistanceAtOrigin ==
    [][(/\ engine = "single"
        /\ obs'.kind = "move"
        /\ hist'.near.open /\ ~hist'.near.far
        /\ hist'.near.node = obs'.node
        /\ obs'.node \in DOMAIN instances \cap DOMAIN instances'
        /\ instances[obs'.node].ctx.offset = [x |-> 0, y |-> 0])
       => /\ \A i \in 1..Len(obs'.calls) : obs'.calls[i].hook # "dragStart"
          /\ ~instances'[obs'.node].ctx.isDragging]_vars

-----------------------------------------------------------------------------
(* The option-based draggable(node, options) of packages/core/src/index.ts. *)
(* Its closure variables are the fields of instances[node]; options holds   *)
(* axis, defaultPosition and position (NULL when absent), the other options *)
(* keep their defaults (no bounds, no grid, no handle, no cancel).  The     *)
(* first animation frame has passed, so tick.then(...) runs with the        *)
(* handler that queued it.                                                  *)

Origin == [x |-> 0, y |-> 0]

\* setTranslate(xPos, yPos, el, gpuAcceleration)
setTranslate(D, el, xPos, yPos) == [D EXCEPT !.translate[el] = Some(<<xPos, yPos>>)]

\* the position the node is given at the beginning: position, else
\* defaultPosition
legacy_position(options) ==
    IF options.position # NULL THEN options.position[1] ELSE options.defaultPosition

\* draggable(node, options): the closure state and the first setTranslate
legacy_draggable(D, node, options) ==
    [I |-> [options |-> options, active |-> FALSE,
            translateX |-> 0, translateY |-> 0,
            initialX |-> 0, initialY |-> 0,
            xOffset |-> legacy_position(options).x,
            yOffset |-> legacy_position(options).y,
            canMoveInX |-> FALSE, canMoveInY |-> FALSE,
            bodyOriginalUserSelectVal |-> ""],
     D |-> setTranslate(D, node, legacy_position(options).x, legacy_position(options).y),
     fired |-> << >>]

\* calculateInverseScale, with nodeRect just measured
calculateInverseScale(D, node) ==
    IF getBoundingClientRect(D, node).width = 0 THEN 1
    ELSE offsetWidth(node) \div getBoundingClientRect(D, node).width

\* callEvent: the CustomEvent dispatched on the node and the callback
callEvent(L, eventName) ==
    [L EXCEPT !.fired = Append(@, [name |-> eventName, offsetX |-> L.I.translateX,
                                   offsetY |-> L.I.translateY])]

\* dragStart from `active = true` on
dragStart_active(L, node, e) ==
    LET L1 == callEvent([L EXCEPT !.I.active = TRUE,
                                  !.I.bodyOriginalUserSelectVal = L.D.userSelect,
                                  !.D.userSelect = "none"],
                        "neodrag:start")
        inverseScale == calculateInverseScale(L.D, node)
    IN  [L1 EXCEPT
           !.I.initialX = IF L.I.canMoveInX
                          THEN e.clientX - (L.I.xOffset \div inverseScale) ELSE @,
           !.I.initialY = IF L.I.canMoveInY
                          THEN e.clientY - (L.I.yOffset \div inverseScale) ELSE @]

\* dragStart, the pointerdown listener
dragStart(L, node, e) ==
    IF contains(node, e.target)
    THEN dragStart_active(
            [L EXCEPT !.D.classes[node] = @ \cup {"neodrag"},
                      !.I.canMoveInX = L.I.options.axis \in {"both", "x"},
                      !.I.canMoveInY = L.I.options.axis \in {"both", "y"}],
            node, e)
    ELSE [L EXCEPT !.D.classes[node] = @ \cup {"neodrag"},
                   !.I.canMoveInX = L.I.options.axis \in {"both", "x"},
                   !.I.canMoveInY = L.I.options.axis \in {"both", "y"}]

\* dragEnd, the pointerup listener
dragEnd(L, node) ==
    IF ~L.I.active THEN L
    ELSE LET L1 == callEvent(
                     [L EXCEPT !.D.classes[node] =
                                   (@ \ {"neodrag-dragging"}) \cup {"neodrag-dragged"},
                               !.D.userSelect = L.I.bodyOriginalUserSelectVal],
                     "neodrag:end")
         IN  [L1 EXCEPT !.I.initialX = IF L.I.canMoveInX THEN L.I.translateX ELSE @,
                        !.I.initialY = IF L.I.canMoveInX THEN L.I.translateY ELSE @,
                        !.I.active = FALSE]

\* drag, the pointermove listener
drag(L, node, e) ==
    IF ~L.I.active THEN L
    ELSE LET inverseScale == calculateInverseScale(L.D, node)
             tx == IF L.I.canMoveInX THEN (e.clientX - L.I.initialX) * inverseScale
                   ELSE L.I.translateX
             ty == IF L.I.canMoveInY THEN (e.clientY - L.I.initialY) * inverseScale
                   ELSE L.I.translateY
             L1 == callEvent([L EXCEPT !.D.classes[node] = @ \cup {"neodrag-dragging"},
                                       !.I.translateX = tx, !.I.translateY = ty,
                                       !.I.xOffset = tx, !.I.yOffset = ty],
                             "neodrag")
         IN  [L1 EXCEPT !.D = setTranslate(@, node, tx, ty)]

\* the page: what a listener of index.ts left
LegacyDone(kind, node, L) ==
    /\ instances' = Put(instances, node, L.I)
    /\ dom' = L.D
    /\ obs' = [Quiet(kind) EXCEPT !.handled = TRUE, !.node = node, !.fired = L.fired]
    /\ UNCHANGED <<engine, cfg, active_node, hist>>

LegacyEnter(node) == [I |-> instances[node], D |-> dom, fired |-> << >>]

LegacyAttach(n, options) ==
    /\ engine = "legacy"
    /\ instances = EmptyMap
    /\ n \in cfg.nodes
    /\ LegacyDone("attach", n, legacy_draggable(dom, n, options))
    /\ UNCHANGED down

LegacyDown(n, e) ==
    /\ engine = "legacy"
    /\ n \in DOMAIN instances
    /\ e.pointerId \notin down
    /\ Abs(instances[n].xOffset) <= cfg.reach /\ Abs(instances[n].yOffset) <= cfg.reach
    /\ LegacyDone("down", n, dragStart(LegacyEnter(n), n, e))
    /\ down' = down \cup {e.pointerId}

LegacyMove(n, e) ==
    /\ engine = "legacy"
    /\ n \in DOMAIN instances
    /\ e.pointerId \in down
    /\ LegacyDone("move", n, drag(LegacyEnter(n), n, e))
    /\ UNCHANGED down

LegacyUp(n, e) ==
    /\ engine = "legacy"
    /\ n \in DOMAIN instances
    /\ e.pointerId \in down
    /\ LegacyDone("up", n, dragEnd(LegacyEnter(n), n))
    /\ down' = down \ {e.pointerId}

NextLegacy ==
    \/ \E n \in Nodes, options \in cfg.options : LegacyAttach(n, options)
    \/ \E n \in Nodes, e \in Events : LegacyDown(n, e)
    \/ \E n \in Nodes, e \in MoveEvents : LegacyMove(n, e)
    \/ \E n \in Nodes, e \in MoveEvents : LegacyUp(n, e)

\* one node, one pointer, every axis, the node placed at (0, 0) or at (1, 1)
\* by defaultPosition or by position
LegacyConfig ==
    [DefaultConfig EXCEPT
        !.scn = "legacy", !.engines = {"legacy"},
        !.xs = 0..MaxCoord, !.ys = {0, 1}, !.reach = MaxOffset,
        !.options = [axis : {"both", "x", "y", "none"},
                     defaultPosition : {Origin, [x |-> 1, y |-> 1]},
                     position : {NULL, Some([x |-> 1, y |-> 1])}]]

InitLegacy == InitWith(LegacyConfig)
SpecLegacy == InitLegacy /\ [][NextLegacy]_vars

\* the translate applied to node n, (0, 0) when none is
Applied(n) ==
    IF dom.translate[n] = NULL THEN Origin
    ELSE [x |-> dom.translate[n][1][1], y |-> dom.translate[n][1][2]]

\* C31: in the option-based draggable of index.ts the translate applied to
\* the node keeps its initial vertical value under axis 'x', its initial
\* horizontal value under axis 'y', and both under axis 'none'
C31_LegacyAxisLocks ==
    \A n \in DOMAIN instances :
        engine = "legacy" =>
            /\ instances[n].options.axis \in {"x", "none"} =>
                  Applied(n).y = legacy_position(instances[n].options).y
            /\ instances[n].options.axis \in {"y", "none"} =>
                  Applied(n).x = legacy_position(instances[n].options).x

\* the same for a node placed at (0, 0)
C31_LegacyAxisLocksAtOrigin ==
    \A n \in DOMAIN instances :
        (engine = "legacy" /\ legacy_position(instances[n].options) = Origin) =>
            /\ instances[n].options.axis \in {"x", "none"} => Applied(n).y = 0
            /\ instances[n].options.axis \in {"y", "none"} => Applied(n).x = 0

-----------------------------------------------------------------------------
(* The scope of ctx.cancel() in createDraggable *)

\* a pointer-move or a pointer-up is handled for n, the active instance,
\* which was interacting: its drag chain or its dragEnd chain is run
ChainRun(n) ==
    /\ engine = "create"
    /\ obs'.kind \in {"move", "up"} /\ obs'.node = n
    /\ n \in DOMAIN instances \cap DOMAIN instances'
    /\ active_node = n
    /\ instances[n].ctx.isInteracting

\* the hook of the chain every such handler runs
ChainHook == IF obs'.kind = "up" THEN "dragEnd" ELSE "drag"

\* the plugins of n that define the hook, as places in its list
Defining(n, hook) ==
    {k \in 1..Len(instances[n].plugins) : Defines(instances[n].plugins[k], hook)}

\* C32: in createDraggable every drag chain and every dragEnd chain invokes
\* the hook of the first cancelable plugin of the instance that defines it,
\* whatever ctx.cancel() calls were made in earlier phases
C32_CancelScopedToPhase ==
    [][\A n \in Nodes :
          ChainRun(n) =>
              \A k \in Defining(n, ChainHook) :
                  (/\ instances[n].plugins[k].cancelable
                   /\ \A j \in Defining(n, ChainHook) : k <= j)
                  => HookCalled(obs'.calls, n, ChainHook, instances[n].plugins[k].uid)]_vars

\* the same for the instances whose current_drag_hook_cancelled is not set
C32_ChainRunsUnlessFlagged ==
    [][\A n \in Nodes :
          (ChainRun(n) /\ ~instances[n].current_drag_hook_cancelled) =>
              \A k \in Defining(n, ChainHook) :
                  (/\ instances[n].plugins[k].cancelable
                   /\ \A j \in Defining(n, ChainHook) : k <= j)
                  => HookCalled(obs'.calls, n, ChainHook, instances[n].plugins[k].uid)]_vars

-----------------------------------------------------------------------------
(* The place of the drag hooks in a press-release cycle *)

\* the dragStart chain of the handler passed, and all its calls precede
\* call i
StartedBefore(i) ==
    /\ obs'.started
    /\ \A j \in 1..Len(obs'.calls) : obs'.calls[j].hook = "dragStart" => j < i

\* C33: a pointer-move of createDraggable invokes a drag hook of an instance
\* only if the instance was dragging or the dragStart chain passed earlier in
\* the same handler, and it invokes the drag hook of each plugin at most once
C33_DragAfterStartOnce ==
    [][\A n \in Nodes :
          (/\ engine = "create"
           /\ obs'.kind = "move" /\ obs'.node = n
           /\ n \in DOMAIN instances) =>
              /\ \A i \in 1..Len(obs'.calls) :
                    (obs'.calls[i].node = n /\ obs'.calls[i].hook = "drag") =>
                        instances[n].ctx.isDragging \/ StartedBefore(i)
              /\ \A k \in 1..Len(instances[n].plugins) :
                    Cardinality(CallsOf(obs'.calls, n, "drag",
                                        instances[n].plugins[k])) <= 1]_vars

\* the same for the pointer-moves of an instance that was dragging
C33_DragOnceWhileDragging ==
    [][\A n \in Nodes :
          MoveWhileDragging(n) =>
              \A k \in 1..Len(instances[n].plugins) :
                  Cardinality(CallsOf(obs'.calls, n, "drag",
                                      instances[n].plugins[k])) <= 1]_vars

-----------------------------------------------------------------------------
(* The private state a hook is passed *)

\* C34: in both plugin engines a shouldDrag, dragStart, drag or dragEnd hook
\* that is passed a private state is passed the one the setup of its own
\* plugin object returned
C34_OwnPrivateState ==
    \A i \in 1..Len(obs.calls) :
        (obs.calls[i].hook \in RunHooks /\ obs.calls[i].owner # "")
            => obs.calls[i].owner = obs.calls[i].uid
-----------------------------------------------------------------------------
(* The pointers an instance has captured *)

\* the pointers whose capture is set on the dragged element of the instance
\* of node n
Held(n) ==
    {p \in PointerIds : dom.capture[p] = instances[n].ctx.currentlyDraggedNode}

\* C35: in createDraggable the dragged element of each instance holds the
\* capture of at most one pointer, and of none once the interaction has ended
C35_OneCapturePerInstance ==
    engine = "create" =>
        \A n \in DOMAIN instances :
            /\ Cardinality(Held(n)) <= 1
            /\ (~instances[n].ctx.isInteracting => Held(n) = {})
-----------------------------------------------------------------------------
(* Dragging within an interaction *)

-----------------------------------------------------------------------------
(* The effect queue between the handlers *)

\* C37: in createDraggable the effect queue of every instance is empty
\* after draggable(node, plugins), each pointer handler and update return
C37_QueueEmptyAtRest ==
    engine = "create" =>
        \A n \in DOMAIN instances : instances[n].effects = << >>
====
